---- MODULE Spec2Model ----
(***************************************************************************)
(* Model of the nexa reactive core: the dependency graph                   *)
(* (nexa-signals/src/graph.rs), the thread-local propagation engine        *)
(* (nexa-signals/src/dependency.rs), the Signal / Memo / Effect wrappers   *)
(* (nexa-signals/src/signal.rs), the graph scheduler and the task queues   *)
(* (nexa-scheduler/src/scheduler.rs, queue.rs), the VDOM differ and the    *)
(* runtime (nexa-core/src/diff.rs, runtime.rs).                            *)
(*                                                                         *)
(* The specifications share the state:                                     *)
(*   SpecGraph    the public Graph API called directly (allocate,          *)
(*                add_dependency, clear_dependencies, remove_node) with    *)
(*                any handle, live or removed;                             *)
(*   Spec         the Signal/Memo/Effect API with batch, handle drops and  *)
(*                the propagation loop; closures read a set of handles;    *)
(*   SpecStatic   the same API without batch and drop, one more handle;    *)
(*   SpecDiamond  the program of test_diamond_problem with any writes;     *)
(*   SpecWrite    effects whose closure also writes a signal, with the     *)
(*                fairness of a synchronous call that keeps running;       *)
(*   SpecSched    Scheduler::schedule / run on graphs whose thunks ran     *)
(*                once;                                                    *)
(*   SpecSchedRerun  the same with thunks that run again and removals;     *)
(*   SpecTake     the Signal/Memo/Effect API with take_dirty();            *)
(*   SpecTick     the three task queues and tick(), tasks that end;        *)
(*   SpecTickLoop the same with tasks that schedule themselves again;      *)
(*   SpecDiff     Differ::diff_nodes on two lists of keyed children;       *)
(*   SpecRuntime  Runtime: mount, update, handle_event, drain_mutations;   *)
(*   SpecDiffStatic  Differ::diff_nodes on nested keyed lists with static  *)
(*                metadata;                                                *)
(*   SpecStale    the Graph API with handles that were removed;            *)
(*   SpecPanic    the Signal/Memo/Effect API with closures that panic and  *)
(*                a caller that catches the panic;                         *)
(*   SpecDyn      the same API with closures that read conditionally;      *)
(*   SpecNested   the same API with effects that write inside batch;       *)
(*   SpecDiffPair Differ::diff_nodes on two nodes of any kind and tag;     *)
(*   SpecDiffProps  Differ::diff_nodes on two Elements with attributes;    *)
(*   SpecScoped   mount and re-render of trees that hold Components;       *)
(*   SpecMeta     the two arenas of VDomArena under both insertions.       *)
(***************************************************************************)
EXTENDS Integers, Sequences, FiniteSets, TLC

\* ------------------------------------------------------------------ bounds
\* handles ever allocated by the Signal/Memo/Effect API in one behaviour
MaxHandles == 3
\* handles ever allocated through the bare Graph API in one behaviour
MaxGraphHandles == 3
\* handles of the specification without batch and drop (SpecStatic)
MaxStaticHandles == 4
\* handles of the specification with writing effects (SpecWrite)
MaxWriteHandles == 2
\* the integers written to the source of the diamond are 0..MaxVal
MaxVal == 2
\* nesting of batch scopes
MaxBatch == 2
\* saturation of the per-operation run counter
MaxRuns == 3
\* GraphNode.depth only ever grows; operations that would push it past this are cut
MaxDepth == 2

VARIABLES
    nodes,          \* Graph.nodes: live handle -> GraphNode
    next_key,       \* number of keys the SlotMap has handed out
    dirty_queue,    \* Graph.dirty_queue
    batch_depth,    \* Graph.batch_depth
    in_propagation, \* Graph.in_propagation
    observers,      \* OBSERVERS thread-local stack
    value,          \* SignalInner.value / MemoInner.value / last value an effect saw
    prog,           \* the closure of each Memo / Effect
    held,           \* handles the user still owns
    stack,          \* call stack of propagate() / update_fn activations
    panicked,       \* a panic unwound the current operation
    op,             \* the API call made last
    tx_runs,        \* thunk executions since the last API call, per handle
    tx_changed,     \* handles whose value was replaced since the last API call
    dirty_set,      \* Scheduler.dirty_set
    sorted_order,   \* the Vec the last Scheduler::run returned
    run_input,      \* the dirty set the last Scheduler::run drained
    taken,          \* the Vec the last take_dirty() returned
    microtasks,     \* LocalScheduler: TaskQueue of microtasks
    effects,        \* LocalScheduler: TaskQueue of effects
    layout_effects, \* LocalScheduler: TaskQueue of layout effects
    tick_pc,        \* where tick() is: "idle" (not running) or the queue it drains
    tick_log,       \* the tasks tick() has run, in order, until the next call
    tick_start,     \* the three queues as they were when that tick() began
    arena,          \* VDomArena.nodes: NodeId -> VirtualNode (ids are 1, 2, ...)
    metadata,       \* VDomArena.metadata: the keys of its own SlotMap (1, 2, ...)
                    \* -> NodeMetadata; followed in SpecMeta, elsewhere every
                    \* node carries its record in its slot of arena
    mutation_buffer,\* Runtime.mutation_buffer / Differ.mutation_buffer
    root_fn,        \* Runtime.root_fn: the component that was mounted
    root_node,      \* Runtime.root_node
    render_count,   \* Profiling.render_count
    cell,           \* the source cell n the root component reads
    root_dirty,     \* the root effect is in the dirty set update() will take
    batch,          \* the Vec the last drain_mutations() returned
    batch_runs,     \* the run_root calls whose records are in batch
    pending_runs,   \* the run_root calls since the last drain_mutations()
    stream,         \* every record pushed since mount, in order
    diff_old,       \* Differ::diff_nodes: old_id
    diff_new,       \* Differ::diff_nodes: new_id
    diff_done,      \* Differ::diff_nodes has returned
    diff_count,     \* Profiling.diff_count
    scopes,         \* Runtime.scopes in insertion order: the names of the scopes,
                    \* for the Differ its Scope records (name and root_node)
    rt_call,        \* the Runtime call made last and what it invoked
    delivered       \* the Vecs drain_mutations() returned so far, concatenated

\* the state of nexa-scheduler
schedvars == <<dirty_set, sorted_order, run_input>>

\* the state of the task queues of nexa-scheduler
tickvars == <<microtasks, effects, layout_effects, tick_pc, tick_log, tick_start>>

\* the state of the Runtime of nexa-core
rtvars == <<root_fn, root_node, render_count, cell, root_dirty, batch, batch_runs,
            pending_runs, stream, scopes, rt_call, delivered>>

\* the arguments of a call of Differ::diff_nodes
diffvars == <<diff_old, diff_new, diff_done, diff_count>>

\* the state of nexa-core
domvars == <<arena, metadata, mutation_buffer, rtvars, diffvars>>

\* the state outside nexa-signals
extvars == <<schedvars, taken, tickvars, domvars>>

vars == <<nodes, next_key, dirty_queue, batch_depth, in_propagation, observers,
          value, prog, held, stack, panicked, op, tx_runs, tx_changed,
          extvars>>

\* the part of the state the bare Graph API never touches
sigvars == <<dirty_queue, batch_depth, in_propagation, observers, value, prog,
             held, stack, tx_runs, tx_changed, extvars>>

NodeTypes == {"Signal", "Memo", "Effect"}
NoVal == -1
NoHandle == 0

Max(a, b) == IF a >= b THEN a ELSE b
Min(a, b) == IF a <= b THEN a ELSE b

\* ------------------------------------------------------------- graph.rs
Live(ns) == DOMAIN ns

\* nodes.get(id).map(|n| n.depth).unwrap_or(0)
DepthOf(ns, id) == IF id \in Live(ns) THEN ns[id].depth ELSE 0

\* Graph::allocate
Allocate(ns, id, node_type) ==
    [h \in Live(ns) \cup {id} |->
        IF h = id
        THEN [node_type |-> node_type, dependencies |-> {}, subscribers |-> {},
              depth |-> 0, update_fn |-> FALSE]
        ELSE ns[h]]

\* Graph::set_update_fn
SetUpdateFn(ns, id) ==
    IF id \in Live(ns) THEN [ns EXCEPT ![id].update_fn = TRUE] ELSE ns

\* with_observer that keeps the edges of the previous execution
ClearNothing(ns, dependent) == ns

\* Graph::clear_dependencies
ClearDependencies(ns, dependent) ==
    IF dependent \notin Live(ns) THEN ns
    ELSE [h \in Live(ns) |->
            IF h = dependent
            THEN [ns[h] EXCEPT
                    !.dependencies = {},
                    !.subscribers = IF h \in ns[dependent].dependencies
                                    THEN @ \ {dependent} ELSE @]
            ELSE IF h \in ns[dependent].dependencies
            THEN [ns[h] EXCEPT !.subscribers = @ \ {dependent}]
            ELSE ns[h]]

\* the handles the BFS of detect_cycle pops, started with `frontier` queued
RECURSIVE Visited(_, _, _)
Visited(ns, seen, frontier) ==
    IF frontier \subseteq seen THEN seen
    ELSE LET new == frontier \ seen
             nxt == UNION {ns[h].subscribers : h \in new \cap Live(ns)}
         IN  Visited(ns, seen \cup new, nxt)

\* detect_cycle that looks at the direct subscribers only
DetectCycleShallow(ns, start, target) ==
    \/ start = target
    \/ start \in Live(ns) /\ target \in ns[start].subscribers

\* Graph::detect_cycle
DetectCycle(ns, start, target) ==
    \/ start = target
    \/ target \in Visited(ns, {}, {start})

\* an add_dependency that takes its two handles in the other order
AddEdgeReversed(ns, subscriber, dependency) ==
    [h \in Live(ns) |->
        LET n1 == IF h = dependency
                  THEN [ns[h] EXCEPT
                          !.dependencies = @ \cup {subscriber},
                          !.depth = Max(@, DepthOf(ns, subscriber) + 1)]
                  ELSE ns[h]
        IN  IF h = subscriber
            THEN [n1 EXCEPT !.subscribers = @ \cup {dependency}]
            ELSE n1]

\* Graph::add_dependency, the part after the cycle check
AddEdge(ns, subscriber, dependency) ==
    LET dep_depth == DepthOf(ns, dependency)
    IN  [h \in Live(ns) |->
            LET n1 == IF h = subscriber /\ dependency \notin ns[h].dependencies
                      THEN [ns[h] EXCEPT
                              !.dependencies = @ \cup {dependency},
                              !.depth = Max(@, dep_depth + 1)]
                      ELSE ns[h]
            IN  IF h = dependency
                THEN [n1 EXCEPT !.subscribers = @ \cup {subscriber}]
                ELSE n1]

\* Graph::add_dependency panics exactly here
AddPanics(ns, subscriber, dependency) ==
    subscriber # dependency /\ DetectCycle(ns, subscriber, dependency)

\* Graph::add_dependency when it returns
AddDependency(ns, subscriber, dependency) ==
    IF subscriber = dependency THEN ns ELSE AddEdge(ns, subscriber, dependency)

\* Graph::remove_node
RemoveNode(ns, id) ==
    LET c == ClearDependencies(ns, id)
        subs == IF id \in Live(c) THEN c[id].subscribers ELSE {}
    IN  [h \in Live(c) \ {id} |->
            IF h \in subs THEN [c[h] EXCEPT !.dependencies = @ \ {id}] ELSE c[h]]


\* ------------------------------------------------------------ initial state
\* Graph::new, empty OBSERVERS, no handle created yet
Init ==
    /\ nodes = <<>>
    /\ next_key = 0
    /\ dirty_queue = {}
    /\ batch_depth = 0
    /\ in_propagation = FALSE
    /\ observers = <<>>
    /\ value = <<>>
    /\ prog = <<>>
    /\ held = {}
    /\ stack = <<>>
    /\ panicked = FALSE
    /\ op = [name |-> "init", a |-> NoHandle, b |-> NoHandle, same |-> FALSE]
    /\ tx_runs = <<>>
    /\ tx_changed = {}
    /\ dirty_set = {}
    /\ sorted_order = <<>>
    /\ run_input = {}
    /\ taken = <<>>
    /\ microtasks = <<>>
    /\ effects = <<>>
    /\ layout_effects = <<>>
    /\ tick_pc = "idle"
    /\ tick_log = <<>>
    /\ tick_start = [micro |-> <<>>, effect |-> <<>>, layout |-> <<>>]
    /\ arena = <<>>
    /\ metadata = <<>>
    /\ mutation_buffer = <<>>
    /\ root_fn = "none"
    /\ root_node = 0
    /\ render_count = 0
    /\ cell = 0
    /\ root_dirty = FALSE
    /\ batch = <<>>
    /\ batch_runs = <<>>
    /\ pending_runs = <<>>
    /\ stream = <<>>
    /\ diff_old = 0
    /\ diff_new = 0
    /\ diff_done = FALSE
    /\ diff_count = 0
    /\ scopes = <<>>
    /\ rt_call = [name |-> "none", id |-> 0, event |-> "", payload |-> "",
                  invoked |-> <<>>, updated |-> FALSE]
    /\ delivered = <<>>

Op(name, a, b) == [name |-> name, a |-> a, b |-> b, same |-> FALSE]

\* handles handed out so far, live or removed
Allocated == 1..next_key

\* ------------------------------------------------------- bare Graph API
\* Graph is a public type: these are its methods called with any handle the
\* SlotMap ever handed out, live or removed.  graph.rs never reads node_type,
\* so the nodes allocated here are all of one kind.  `op` records the call only
\* when add_dependency panics (the panic is what the caller observes).
NoOp == [name |-> "none", a |-> NoHandle, b |-> NoHandle, same |-> FALSE]

\* graph.allocate(node_type)
GAllocate(node_type) ==
    /\ ~panicked
    /\ next_key < MaxGraphHandles
    /\ next_key' = next_key + 1
    /\ nodes' = Allocate(nodes, next_key + 1, node_type)
    /\ op' = NoOp
    /\ UNCHANGED <<panicked, sigvars>>

\* graph.add_dependency(subscriber, dependency)
GAddDependency(subscriber, dependency) ==
    /\ ~panicked
    /\ IF AddPanics(nodes, subscriber, dependency)
       THEN /\ panicked' = TRUE
            /\ op' = Op("add_dependency", subscriber, dependency)
            /\ UNCHANGED nodes
       ELSE /\ DepthOf(nodes, dependency) < MaxDepth
            /\ nodes' = AddDependency(nodes, subscriber, dependency)
            /\ op' = NoOp
            /\ UNCHANGED panicked
    /\ UNCHANGED <<next_key, sigvars>>

\* graph.clear_dependencies(dependent)
GClearDependencies(dependent) ==
    /\ ~panicked
    /\ nodes' = ClearDependencies(nodes, dependent)
    /\ op' = NoOp
    /\ UNCHANGED <<next_key, panicked, sigvars>>

\* graph.remove_node(id)
GRemoveNode(id) ==
    /\ ~panicked
    /\ nodes' = RemoveNode(nodes, id)
    /\ op' = NoOp
    /\ UNCHANGED <<next_key, panicked, sigvars>>

NextGraph ==
    \/ GAllocate("Memo")
    \/ \E a, b \in Allocated : GAddDependency(a, b)
    \/ \E a \in Allocated : GClearDependencies(a)
    \/ \E a \in Allocated : GRemoveNode(a)

SpecGraph == Init /\ [][NextGraph]_vars

\* ---------------------------------------- bare Graph API, every call recorded
\* handles ever allocated in a behaviour of SpecStale
MaxStaleHandles == 3

\* graph.allocate(node_type)
SAllocate(node_type) ==
    /\ ~panicked
    /\ next_key < MaxStaleHandles
    /\ next_key' = next_key + 1
    /\ nodes' = Allocate(nodes, next_key + 1, node_type)
    /\ op' = Op("allocate", next_key + 1, NoHandle)
    /\ UNCHANGED <<panicked, sigvars>>

\* graph.set_update_fn(id, f)
SSetUpdateFn(id) ==
    /\ ~panicked
    /\ nodes' = SetUpdateFn(nodes, id)
    /\ op' = Op("set_update_fn", id, NoHandle)
    /\ UNCHANGED <<next_key, panicked, sigvars>>

\* graph.add_dependency(subscriber, dependency)
SAddDependency(subscriber, dependency) ==
    /\ ~panicked
    /\ op' = Op("add_dependency", subscriber, dependency)
    /\ IF AddPanics(nodes, subscriber, dependency)
       THEN /\ panicked' = TRUE
            /\ UNCHANGED nodes
       ELSE /\ DepthOf(nodes, dependency) < MaxDepth
            /\ nodes' = AddDependency(nodes, subscriber, dependency)
            /\ UNCHANGED panicked
    /\ UNCHANGED <<next_key, sigvars>>

\* graph.clear_dependencies(dependent)
SClearDependencies(dependent) ==
    /\ ~panicked
    /\ nodes' = ClearDependencies(nodes, dependent)
    /\ op' = Op("clear_dependencies", dependent, NoHandle)
    /\ UNCHANGED <<next_key, panicked, sigvars>>

\* graph.remove_node(id)
SRemoveNode(id) ==
    /\ ~panicked
    /\ nodes' = RemoveNode(nodes, id)
    /\ op' = Op("remove_node", id, NoHandle)
    /\ UNCHANGED <<next_key, panicked, sigvars>>

NextStale ==
    \/ SAllocate("Memo")
    \/ \E a \in Allocated : SSetUpdateFn(a)
    \/ \E a, b \in Allocated : SAddDependency(a, b)
    \/ \E a \in Allocated : SClearDependencies(a)
    \/ \E a \in Allocated : SRemoveNode(a)

SpecStale == Init /\ [][NextStale]_vars

\* ------------------------------------------------- properties of the graph
Deps(h) == IF h \in Live(nodes) THEN nodes[h].dependencies ELSE {}
Subs(h) == IF h \in Live(nodes) THEN nodes[h].subscribers ELSE {}

\* handles reachable from h along one or more subscriber edges
Downstream(ns, h) ==
    Visited(ns, {}, IF h \in Live(ns) THEN ns[h].subscribers ELSE {})

\* C1: for all handles A and B, A is in deps(B) iff B is in subs(A); a removed
\* handle has neither, so no live node may list it.
C1_EdgeSymmetry ==
    \A a, b \in Allocated : (a \in Deps(b)) <=> (b \in Subs(a))

NoCycle == \A h \in Allocated : h \notin Downstream(nodes, h)

\* C2: no handle is reachable from itself along subscriber edges, and
\* add_dependency(O, D) panics exactly for O # D with D reachable from O,
\* leaving the graph as it was.
C2_Acyclic ==
    /\ []NoCycle
    /\ [][(panicked' /\ ~panicked /\ op'.name = "add_dependency")
            => /\ nodes' = nodes
               /\ op'.a # op'.b
               /\ op'.b \in Downstream(nodes, op'.a)]_vars

\* C2 witness: an add_dependency was refused whose dependency is reachable from
\* the observer only through an intermediate node
C2_Witness ==
    /\ panicked
    /\ op.name = "add_dependency"
    /\ op.a \in Live(nodes) /\ op.b \in Live(nodes)
    /\ op.b \notin nodes[op.a].subscribers
    /\ op.b \in Downstream(nodes, op.a)

\* C3: for every edge D -> O (O depends on D), depth(O) > depth(D)
C3_DepthMonotone ==
    \A o \in Live(nodes) : \A d \in nodes[o].dependencies :
        DepthOf(nodes, o) > DepthOf(nodes, d)


\* ------------------------------------------------ Signal / Memo / Effect
\* A closure is what the user wrote: the handles it reads (in ascending order),
\* the function it applies to the sum of what it read, and, for an effect, the
\* signal it then writes (NoHandle: none). fn = "batch" is an effect whose write
\* is wrapped in batch(|| ..).
NoProg == [reads |-> {}, fn |-> "sum", wr |-> NoHandle]

Apply(fn, x) ==
    CASE fn = "sum" -> x
      [] fn = "pos" -> IF x > 0 THEN 1 ELSE 0
      [] fn = "dbl" -> 2 * x
      [] fn = "inc" -> x + 1
      [] fn = "inv" -> IF x = 0 THEN 0 ELSE 1 \div x
      [] fn = "sel" -> x
      [] fn = "batch" -> x

\* the closure panics: 1 / x with x = 0
Fails(fn, x) == fn = "inv" /\ x = 0

\* Spec and SpecStatic instantiate Signal<T> with a two-valued T
Bits == {0, 1}

\* the value an effect writes: the negation of what it read
Bump(x) == (x + 1) % 2

RECURSIVE SumOf(_, _)
SumOf(vals, hs) ==
    IF hs = {} THEN 0
    ELSE LET h == CHOOSE x \in hs : TRUE IN vals[h] + SumOf(vals, hs \ {h})

IsType(h, t) == h \in Live(nodes) /\ nodes[h].node_type = t

\* handles a closure keeps alive (the clones it captured)
Refs(pr, h) == pr[h].reads \cup ({pr[h].wr} \ {NoHandle})

\* inners without a Drop impl: no node is ever removed
CollectNothing(alive, hd, pr) == alive

\* Rc drop glue: SignalInner / MemoInner / EffectInner are dropped, and their
\* nodes removed, once neither the user nor a live closure holds a clone
RECURSIVE Collect(_, _, _)
Collect(alive, hd, pr) ==
    LET dead == {h \in alive : h \notin hd /\ \A g \in alive : h \notin Refs(pr, g)}
    IN  IF dead = {} THEN alive ELSE Collect(alive \ dead, hd, pr)

RECURSIVE RemoveAll(_, _)
RemoveAll(ns, ids) ==
    IF ids = {} THEN ns
    ELSE LET h == CHOOSE x \in ids : TRUE IN RemoveAll(RemoveNode(ns, h), ids \ {h})

\* track_read for each handle of `todo` in ascending order, under observer obs:
\* the graph when the closure returns or at the read that panics
RECURSIVE TrackReads(_, _, _, _)
TrackReads(ns, vals, obs, todo) ==
    IF todo = {} THEN [nodes |-> ns, panic |-> FALSE]
    ELSE LET r == CHOOSE x \in todo : \A y \in todo : x <= y
         IN  IF AddPanics(ns, obs, r)
             THEN [nodes |-> ns, panic |-> TRUE]
             ELSE IF vals[r] = NoVal
             THEN [nodes |-> AddDependency(ns, obs, r), panic |-> TRUE]
             ELSE TrackReads(AddDependency(ns, obs, r), vals, obs, todo \ {r})

\* dirty_queue.drain().collect() then sort_by_key(depth): the HashSet yields its
\* elements in any order and the sort is stable, so every order that is
\* ascending in depth can come out
RECURSIVE DrainOrders(_, _)
DrainOrders(ns, d) ==
    IF d = {} THEN {<<>>}
    ELSE LET firsts == {x \in d : \A y \in d : DepthOf(ns, x) <= DepthOf(ns, y)}
         IN  UNION {{<<x>> \o q : q \in DrainOrders(ns, d \ {x})} : x \in firsts}

PropFrame(todo) == [k |-> "prop", node |-> NoHandle, todo |-> todo, acc |-> 0]
ThunkFrame(n) == [k |-> "thunk", node |-> n, todo |-> <<>>, acc |-> 0]
FinFrame(n, acc) == [k |-> "fin", node |-> n, todo |-> <<>>, acc |-> acc]

Top == stack[Len(stack)]
Pop(st) == SubSeq(st, 1, Len(st) - 1)
Idle == stack = <<>> /\ ~panicked

ZeroRuns == [h \in 1..next_key |-> 0]
Ran(n) == [tx_runs EXCEPT ![n] = Min(@ + 1, MaxRuns)]

\* Signal::set without the comparison
SetAlwaysChanges(old, new) == TRUE

\* Signal::set: `same` decides whether anything happens
SetChanges(old, new) == old # new

\* the test of mark_subscribers_dirty without the batch depth
StartsPropagationInBatch(bd, ip) == ~ip

\* mark_subscribers_dirty / batch: propagate() is called only when no batch is
\* open and no propagation is running
StartsPropagation(bd, ip) == bd = 0 /\ ~ip

\* mark_subscribers_dirty that inserts everything downstream of id
MarkDownstream(ns, dq, id) == dq \cup (Visited(ns, {}, {id}) \ {id})

\* mark_subscribers_dirty: the dirty set after the subscribers of id are inserted
MarkSubscribers(ns, dq, id) ==
    dq \cup (IF id \in Live(ns) THEN ns[id].subscribers ELSE {})

\* propagate(): what the loop does with a drained handle
RunsThunk(ns, id) == id \in Live(ns) /\ ns[id].update_fn

\* The handles an execution of closure pr reads when the stored values are
\* vals.  A "sel" closure over c < a < b is
\* `c.get() + if c.get() > 0 { a.get() } else { b.get() }`; every other closure
\* reads all the handles it captured.
Reads(pr, vals) ==
    IF pr.fn = "sel" /\ Cardinality(pr.reads) = 3
    THEN LET c == CHOOSE x \in pr.reads : \A y \in pr.reads : x <= y
             b == CHOOSE x \in pr.reads : \A y \in pr.reads : x >= y
             a == CHOOSE x \in pr.reads : x # c /\ x # b
         IN  {c} \cup (IF vals[c] > 0 THEN {a} ELSE {b})
    ELSE pr.reads

\* batch(f) whose f has returned, entered at batch depth bd with dq the dirty
\* queue f left: the depth is back to bd, and propagate() is called if that is
\* 0 and the queue is not empty
BatchExitPropagates(bd, dq) == bd = 0 /\ dq # {}

\* The closure of n run under with_observer: clear_dependencies, the tracked
\* reads, and for an effect its Signal::set (inside batch the set only marks),
\* up to (not including) the propagate() that the set or the batch exit may
\* start.
Body(n) ==
    LET reads == Reads(prog[n], value)
        tr == TrackReads(ClearDependencies(nodes, n), value, n, reads)
        acc == Apply(prog[n].fn, SumOf(value, reads))
        w == prog[n].wr
        panic == tr.panic \/ Fails(prog[n].fn, SumOf(value, reads))
        writes == /\ ~panic
                  /\ w # NoHandle
                  /\ SetChanges(value[w], Bump(acc))
        after == IF writes THEN MarkSubscribers(tr.nodes, dirty_queue, w)
                 ELSE dirty_queue
    IN  [nodes |-> tr.nodes,
         panic |-> panic,
         acc |-> IF panic THEN 0 ELSE acc,
         value |-> IF writes THEN [value EXCEPT ![w] = Bump(acc)] ELSE value,
         dirty |-> after,
         wrote |-> writes,
         nested |-> /\ ~panic
                    /\ IF prog[n].fn = "batch"
                       THEN BatchExitPropagates(batch_depth, after)
                       ELSE writes /\ StartsPropagation(batch_depth, in_propagation)]

\* the update_fn of a Memo that stores what it computed and tells nobody
FinishSilent(n, new_val, ns, vals, dq) ==
    [value |-> [vals EXCEPT ![n] = new_val], dirty |-> dq, marked |-> FALSE]

\* the update_fn of a Memo without the comparison: every recompute is stored
\* and marks the subscribers
FinishAlways(n, new_val, ns, vals, dq) ==
    LET memo == n \in Live(ns) /\ ns[n].node_type = "Memo"
        first == vals[n] = NoVal
        changed == memo /\ ~first
    IN  [value |-> [vals EXCEPT ![n] = new_val],
         dirty |-> IF changed THEN MarkSubscribers(ns, dq, n) ELSE dq,
         marked |-> changed]

\* The rest of the update_fn of n after its closure returned new_val: a Memo
\* stores it and marks its subscribers if it differs from the cached value (the
\* first run only stores); an Effect has nothing left to do (value[n] keeps what
\* it saw for the properties).
Finish(n, new_val, ns, vals, dq) ==
    LET memo == n \in Live(ns) /\ ns[n].node_type = "Memo"
        first == vals[n] = NoVal
        changed == memo /\ ~first /\ vals[n] # new_val
    IN  [value |-> IF memo /\ ~first /\ ~changed THEN vals
                   ELSE [vals EXCEPT ![n] = new_val],
         dirty |-> IF changed THEN MarkSubscribers(ns, dq, n) ELSE dq,
         marked |-> changed]

\* the signals and memos whose stored value differs between two states
Replaced(old, new) ==
    {h \in Live(nodes) : nodes[h].node_type # "Effect" /\ new[h] # old[h]}

\* update_fn of Head of the call stack starts
ThunkRun ==
    /\ ~panicked
    /\ stack # <<>>
    /\ Top.k = "thunk"
    /\ LET n == Top.node
           below == Pop(stack)
           b == Body(n)
           f == Finish(n, b.acc, b.nodes, b.value, b.dirty)
       IN  IF n \notin Live(nodes)
           THEN /\ stack' = below
                /\ UNCHANGED <<nodes, dirty_queue, in_propagation, observers, value,
                               panicked, tx_runs>>
           ELSE /\ tx_runs' = Ran(n)
                /\ nodes' = b.nodes
                /\ IF b.panic
                   THEN /\ panicked' = TRUE
                        /\ observers' = Append(observers, n)
                        /\ UNCHANGED <<dirty_queue, in_propagation, value, stack>>
                   ELSE IF b.nested
                   THEN /\ value' = b.value
                        /\ dirty_queue' = b.dirty
                        /\ in_propagation' = TRUE
                        /\ observers' = Append(observers, n)
                        /\ stack' = below \o <<FinFrame(n, b.acc), PropFrame(<<>>)>>
                        /\ UNCHANGED panicked
                   ELSE /\ value' = f.value
                        /\ dirty_queue' = f.dirty
                        /\ IF f.marked /\ StartsPropagation(batch_depth, in_propagation)
                           THEN /\ in_propagation' = TRUE
                                /\ stack' = Append(below, PropFrame(<<>>))
                           ELSE /\ stack' = below
                                /\ UNCHANGED in_propagation
                        /\ UNCHANGED <<observers, panicked>>
    /\ tx_changed' = tx_changed \cup Replaced(value, value')
    /\ UNCHANGED <<next_key, batch_depth, prog, held, op>>
    /\ UNCHANGED extvars

\* the propagate() a closure started has returned: pop_observer and the rest of
\* the update_fn
ThunkFinish ==
    /\ ~panicked
    /\ stack # <<>>
    /\ Top.k = "fin"
    /\ LET n == Top.node
           below == Pop(stack)
           f == Finish(n, Top.acc, nodes, value, dirty_queue)
       IN  /\ observers' = Pop(observers)
           /\ value' = f.value
           /\ tx_changed' = tx_changed \cup Replaced(value, value')
           /\ dirty_queue' = f.dirty
           /\ IF f.marked /\ StartsPropagation(batch_depth, in_propagation)
              THEN /\ in_propagation' = TRUE
                   /\ stack' = Append(below, PropFrame(<<>>))
              ELSE /\ stack' = below
                   /\ UNCHANGED in_propagation
    /\ UNCHANGED <<nodes, next_key, batch_depth, prog, held, panicked, op, tx_runs>>
    /\ UNCHANGED extvars

\* propagate(): top of the loop, the previous batch is finished
PropTake ==
    /\ ~panicked
    /\ stack # <<>>
    /\ Top.k = "prop"
    /\ Top.todo = <<>>
    /\ IF dirty_queue = {}
       THEN /\ in_propagation' = FALSE
            /\ stack' = Pop(stack)
            /\ UNCHANGED dirty_queue
       ELSE /\ \E q \in DrainOrders(nodes, dirty_queue) :
                 stack' = Append(Pop(stack), PropFrame(q))
            /\ dirty_queue' = {}
            /\ UNCHANGED in_propagation
    /\ UNCHANGED <<nodes, next_key, batch_depth, observers, value, prog, held,
                   panicked, op, tx_runs, tx_changed>>
    /\ UNCHANGED extvars

\* propagate(): the for loop takes the next handle of the batch
PropRun ==
    /\ ~panicked
    /\ stack # <<>>
    /\ Top.k = "prop"
    /\ Top.todo # <<>>
    /\ LET id == Head(Top.todo)
           rest == Append(Pop(stack), PropFrame(Tail(Top.todo)))
       IN  stack' = IF RunsThunk(nodes, id) THEN Append(rest, ThunkFrame(id)) ELSE rest
    /\ UNCHANGED <<nodes, next_key, dirty_queue, batch_depth, in_propagation,
                   observers, value, prog, held, panicked, op, tx_runs,
                   tx_changed>>
    /\ UNCHANGED extvars


\* ------------------------------------------------------------ user calls
Extend(f, id, x) == [h \in 1..id |-> IF h = id THEN x ELSE f[h]]

\* handles the user can clone into a new closure: signals and memos they hold
Readable == {h \in held : IsType(h, "Signal") \/ IsType(h, "Memo")}
Writable == {h \in held : IsType(h, "Signal")}

\* Signal::new(v)
NewSignal(v) ==
    /\ Idle
    /\ LET id == next_key + 1
       IN  /\ next_key' = id
           /\ nodes' = Allocate(nodes, id, "Signal")
           /\ value' = Extend(value, id, v)
           /\ prog' = Extend(prog, id, NoProg)
           /\ held' = held \cup {id}
           /\ tx_runs' = [h \in 1..id |-> 0]
           /\ tx_changed' = {}
           /\ op' = Op("new", id, NoHandle)
    /\ UNCHANGED <<dirty_queue, batch_depth, in_propagation, observers, stack, panicked>>
    /\ UNCHANGED extvars

\* Memo::new / Effect::new: allocate_node, set_update_fn, then the first run
NewDerived(node_type, pr) ==
    /\ Idle
    /\ LET id == next_key + 1
       IN  /\ next_key' = id
           /\ nodes' = SetUpdateFn(Allocate(nodes, id, node_type), id)
           /\ value' = Extend(value, id, NoVal)
           /\ prog' = Extend(prog, id, pr)
           /\ held' = held \cup {id}
           /\ tx_runs' = [h \in 1..id |-> 0]
           /\ tx_changed' = {}
           /\ stack' = <<ThunkFrame(id)>>
           /\ op' = Op("new", id, NoHandle)
    /\ UNCHANGED <<dirty_queue, batch_depth, in_propagation, observers, panicked>>
    /\ UNCHANGED extvars

NewMemo(reads, fn) == NewDerived("Memo", [reads |-> reads, fn |-> fn, wr |-> NoHandle])

NewEffect(reads, wr) == NewDerived("Effect", [reads |-> reads, fn |-> "sum", wr |-> wr])

\* Effect::new(move || { let v = ..; batch(|| wr.set(..)) })
NewBatchingEffect(reads, wr) ==
    NewDerived("Effect", [reads |-> reads, fn |-> "batch", wr |-> wr])

\* Signal::set(v)
Set(s, v) ==
    /\ Idle
    /\ s \in Writable
    /\ tx_runs' = ZeroRuns
    /\ op' = [name |-> "set", a |-> s, b |-> NoHandle, same |-> value[s] = v]
    /\ IF SetChanges(value[s], v)
       THEN /\ value' = [value EXCEPT ![s] = v]
            /\ dirty_queue' = MarkSubscribers(nodes, dirty_queue, s)
            /\ IF StartsPropagation(batch_depth, in_propagation)
               THEN in_propagation' = TRUE /\ stack' = <<PropFrame(<<>>)>>
               ELSE UNCHANGED <<in_propagation, stack>>
       ELSE UNCHANGED <<value, dirty_queue, in_propagation, stack>>
    /\ tx_changed' = Replaced(value, value')
    /\ UNCHANGED <<nodes, next_key, batch_depth, observers, prog, held, panicked>>
    /\ UNCHANGED extvars

\* batch(f): entry
BatchBegin ==
    /\ Idle
    /\ batch_depth < MaxBatch
    /\ batch_depth' = batch_depth + 1
    /\ tx_runs' = ZeroRuns
    /\ tx_changed' = {}
    /\ op' = Op("batch_begin", NoHandle, NoHandle)
    /\ UNCHANGED <<nodes, next_key, dirty_queue, in_propagation, observers, value,
                   prog, held, stack, panicked>>
    /\ UNCHANGED extvars

\* batch(f): f returned
BatchEnd ==
    /\ Idle
    /\ batch_depth > 0
    /\ batch_depth' = batch_depth - 1
    /\ tx_runs' = ZeroRuns
    /\ tx_changed' = {}
    /\ op' = Op("batch_end", NoHandle, NoHandle)
    /\ IF BatchExitPropagates(batch_depth', dirty_queue)
       THEN in_propagation' = TRUE /\ stack' = <<PropFrame(<<>>)>>
       ELSE UNCHANGED <<in_propagation, stack>>
    /\ UNCHANGED <<nodes, next_key, dirty_queue, observers, value, prog, held, panicked>>
    /\ UNCHANGED extvars

\* what is left after the inners nobody holds any more are dropped
Release(hd, pr) ==
    LET alive == Collect(Live(nodes), hd, pr)
    IN  /\ nodes' = RemoveAll(nodes, Live(nodes) \ alive)
        /\ prog' = [h \in 1..next_key |-> IF h \in alive THEN pr[h] ELSE NoProg]
        /\ value' = [h \in 1..next_key |-> IF h \in alive THEN value[h] ELSE NoVal]

\* the user drops their handle h
DropHandle(h) ==
    /\ Idle
    /\ h \in held
    /\ held' = held \ {h}
    /\ Release(held', prog)
    /\ tx_runs' = ZeroRuns
    /\ tx_changed' = {}
    /\ op' = Op("drop", NoHandle, NoHandle)
    /\ UNCHANGED <<next_key, dirty_queue, batch_depth, in_propagation, observers,
                   stack, panicked>>
    /\ UNCHANGED extvars

\* The panic of a closure unwinds through update_fn, with_observer, propagate()
\* and the API call that started it, none of which catches it or holds a guard,
\* up to a catch_unwind of the caller: the frames are gone, GRAPH and OBSERVERS
\* are as the unwinding left them.  A panic in the first run unwinds through
\* Memo::new / Effect::new, which drops the only Rc of the inner: the node is
\* removed and the caller never gets the handle.
CatchUnwind ==
    /\ panicked
    /\ panicked' = FALSE
    /\ stack' = <<>>
    /\ op' = Op("catch_unwind", NoHandle, NoHandle)
    /\ IF op.name = "new"
       THEN /\ held' = held \ {op.a}
            /\ Release(held', prog)
       ELSE UNCHANGED <<nodes, value, prog, held>>
    /\ UNCHANGED <<next_key, dirty_queue, batch_depth, in_propagation, observers,
                   tx_runs, tx_changed>>
    /\ UNCHANGED extvars

Next ==
    \/ next_key < MaxHandles /\ \E v \in Bits : NewSignal(v)
    \/ next_key < MaxHandles /\ \E reads \in SUBSET Readable : NewMemo(reads, "pos")
    \/ next_key < MaxHandles /\ \E reads \in SUBSET Readable : NewEffect(reads, NoHandle)
    \/ \E s \in Writable, v \in Bits : Set(s, v)
    \/ BatchBegin
    \/ BatchEnd
    \/ \E h \in held : DropHandle(h)
    \/ PropTake
    \/ PropRun
    \/ ThunkRun

Spec == Init /\ [][Next]_vars

\* take_dirty(): the dirty set is drained into a Vec sorted by depth
TakeDirty ==
    /\ Idle
    /\ dirty_queue # {}
    /\ \E q \in DrainOrders(nodes, dirty_queue) : taken' = q
    /\ dirty_queue' = {}
    /\ tx_runs' = ZeroRuns
    /\ tx_changed' = {}
    /\ op' = Op("take_dirty", NoHandle, NoHandle)
    /\ UNCHANGED <<nodes, next_key, batch_depth, in_propagation, observers, value,
                   prog, held, stack, panicked, schedvars, tickvars, domvars>>

\* the Signal/Memo/Effect API with a caller that also drains the dirty set
\* itself (take_dirty inside a batch)
NextTake ==
    \/ next_key < MaxHandles /\ \E v \in Bits : NewSignal(v)
    \/ next_key < MaxHandles /\ \E reads \in SUBSET Readable : NewMemo(reads, "pos")
    \/ next_key < MaxHandles /\ \E reads \in SUBSET Readable : NewEffect(reads, NoHandle)
    \/ \E s \in Writable, v \in Bits : Set(s, v)
    \/ BatchBegin
    \/ BatchEnd
    \/ TakeDirty
    \/ PropTake
    \/ PropRun
    \/ ThunkRun

SpecTake == Init /\ [][NextTake]_vars

\* the same API without batch and drop, for graphs of one more node
NextStatic ==
    \/ next_key < MaxStaticHandles /\ \E v \in Bits : NewSignal(v)
    \/ next_key < MaxStaticHandles /\ \E reads \in SUBSET Readable : NewMemo(reads, "pos")
    \/ next_key < MaxStaticHandles /\ \E reads \in SUBSET Readable : NewEffect(reads, NoHandle)
    \/ \E s \in Writable, v \in Bits : Set(s, v)
    \/ PropTake
    \/ PropRun
    \/ ThunkRun

SpecStatic == Init /\ [][NextStatic]_vars

\* ------------------------------------------------ closures that may panic
\* handles of the specification with panicking closures (SpecPanic)
MaxPanicHandles == 3

\* the Signal/Memo/Effect API with memos that compute 1 / x and a caller that
\* catches the panic and goes on
NextPanic ==
    \/ next_key < MaxPanicHandles /\ \E v \in Bits : NewSignal(v)
    \/ /\ next_key < MaxPanicHandles
       /\ \E reads \in SUBSET Readable, fn \in {"pos", "inv"} : NewMemo(reads, fn)
    \/ next_key < MaxPanicHandles /\ \E reads \in SUBSET Readable : NewEffect(reads, NoHandle)
    \/ \E s \in Writable, v \in Bits : Set(s, v)
    \/ PropTake
    \/ PropRun
    \/ ThunkRun
    \/ CatchUnwind

SpecPanic == Init /\ [][NextPanic]_vars

\* ------------------------------------------------ closures that branch
\* handles of the specification with closures that read conditionally (SpecDyn)
MaxDynHandles == 5

\* the Signal/Memo/Effect API with memos and effects whose closure reads one of
\* two handles depending on a third, and effects that read one handle
NextDyn ==
    \/ next_key < MaxDynHandles /\ \E v \in Bits : NewSignal(v)
    \/ /\ next_key < MaxDynHandles
       /\ \E reads \in SUBSET Readable : Cardinality(reads) = 3 /\ NewMemo(reads, "sel")
    \/ /\ next_key < MaxDynHandles
       /\ \E reads \in SUBSET Readable :
            /\ Cardinality(reads) = 3
            /\ NewDerived("Effect", [reads |-> reads, fn |-> "sel", wr |-> NoHandle])
    \/ next_key < MaxDynHandles /\ \E r \in Readable : NewEffect({r}, NoHandle)
    \/ \E s \in Writable, v \in Bits : Set(s, v)
    \/ PropTake
    \/ PropRun
    \/ ThunkRun

SpecDyn == Init /\ [][NextDyn]_vars

\* tests/reactivity_test.rs, test_diamond_problem: s; a = s * 2; b = s + 1;
\* c = a + b, created in this order
DiamondProg ==
    <<NoProg,
      [reads |-> {1}, fn |-> "dbl", wr |-> NoHandle],
      [reads |-> {1}, fn |-> "inc", wr |-> NoHandle],
      [reads |-> {2, 3}, fn |-> "sum", wr |-> NoHandle]>>

NextDiamond ==
    \/ next_key = 0 /\ \E v \in 0..MaxVal : NewSignal(v)
    \/ /\ next_key \in 1..(Len(DiamondProg) - 1)
       /\ NewMemo(DiamondProg[next_key + 1].reads, DiamondProg[next_key + 1].fn)
    \/ \E v \in 0..MaxVal : Set(1, v)
    \/ PropTake
    \/ PropRun
    \/ ThunkRun

SpecDiamond == Init /\ [][NextDiamond]_vars


\* tests of nexa-signals with closures that write: an effect may call
\* Signal::set on a signal it holds, also the one it reads
NextWrite ==
    \/ next_key < MaxWriteHandles /\ \E v \in Bits : NewSignal(v)
    \/ /\ next_key < MaxWriteHandles
       /\ \E reads \in SUBSET Readable, wr \in Writable \cup {NoHandle} : NewEffect(reads, wr)
    \/ \E s \in Writable, v \in Bits : Set(s, v)
    \/ BatchBegin
    \/ BatchEnd
    \/ PropTake
    \/ PropRun
    \/ ThunkRun
    \/ ThunkFinish

\* propagate() and the thunks run synchronously on one thread: once called they
\* keep taking steps until they return
SpecWrite ==
    Init /\ [][NextWrite]_vars /\ WF_vars(PropTake \/ PropRun \/ ThunkRun \/ ThunkFinish)

\* effects whose closure writes inside batch(|| ..): every propagate() the
\* exit of such a batch starts is one more level of calls, followed up to
\* MaxNesting frames
MaxNestHandles == 4
MaxNesting == 6

NextNested ==
    \/ next_key < MaxNestHandles /\ \E v \in Bits : NewSignal(v)
    \/ /\ next_key < MaxNestHandles
       /\ \E reads \in SUBSET Readable, wr \in Writable : NewBatchingEffect(reads, wr)
    \/ /\ next_key < MaxNestHandles
       /\ \E reads \in SUBSET Readable, wr \in Writable \cup {NoHandle} : NewEffect(reads, wr)
    \/ \E s \in Writable, v \in Bits : Set(s, v)
    \/ PropTake
    \/ PropRun
    \/ Len(stack) <= MaxNesting /\ ThunkRun
    \/ ThunkFinish

SpecNested == Init /\ [][NextNested]_vars

\* ------------------------------------------------- nexa-scheduler: run
\* handles the graph of SpecSched ever allocates
MaxSchedHandles == 4
\* handles the graph of SpecSchedRerun ever allocates
MaxRerunHandles == 3

\* PriorityTier of a node: Signal | Memo => Signal (0), Effect => Effect (1)
Tier(ns, id) == IF ns[id].node_type = "Effect" THEN 1 ELSE 0

\* impl Ord for ScheduledNode, reversed for the max-heap: a is popped before b
PopsBefore(ns, a, b) ==
    \/ Tier(ns, a) < Tier(ns, b)
    \/ Tier(ns, a) = Tier(ns, b) /\ ns[a].depth < ns[b].depth
    \/ Tier(ns, a) = Tier(ns, b) /\ ns[a].depth = ns[b].depth /\ a < b

\* closure that stops at the direct subscribers
ClosureDirect(ns, dirty) ==
    dirty \cup UNION {ns[h].subscribers : h \in dirty \cap Live(ns)}

\* Scheduler::run step 1: subgraph_nodes, everything reachable from the dirty
\* set along subscribers (handles without a node included)
Closure(ns, dirty) == Visited(ns, {}, dirty)

\* Scheduler::run: in_degrees restricted to the subgraph
InDegrees(ns, sub) ==
    [v \in sub |-> Cardinality({u \in sub \cap Live(ns) : v \in ns[u].subscribers})]

\* the nodes of cand that are pushed on the heap: degree 0 and still in the graph
Pushed(ns, deg, cand) == {v \in cand : deg[v] = 0 /\ v \in Live(ns)}

\* Scheduler::run step 2: the loop `while let Some(..) = heap.pop()`
RECURSIVE Kahn(_, _, _, _)
Kahn(ns, heap, deg, order) ==
    IF heap = {} THEN order
    ELSE LET id == CHOOSE x \in heap : \A y \in heap \ {x} : PopsBefore(ns, x, y)
             subs == ns[id].subscribers \cap DOMAIN deg
             deg2 == [v \in DOMAIN deg |-> IF v \in subs THEN deg[v] - 1 ELSE deg[v]]
         IN  Kahn(ns, (heap \ {id}) \cup Pushed(ns, deg2, subs), deg2, Append(order, id))

\* Scheduler::run on a non-empty dirty set: the order and whether it panics
RunOrder(ns, dirty) ==
    LET sub == Closure(ns, dirty)
        deg == InDegrees(ns, sub)
        order == Kahn(ns, Pushed(ns, deg, sub), deg, <<>>)
    IN  [order |-> order, panic |-> Len(order) # Cardinality(sub)]

\* scheduler.schedule(ids): the caller hands over what take_dirty returned
Schedule(ids) ==
    /\ ~panicked
    /\ sorted_order = <<>>
    /\ dirty_set = {}
    /\ ids # {}
    /\ dirty_set' = dirty_set \cup ids
    /\ op' = NoOp
    /\ run_input' = {}
    /\ UNCHANGED <<nodes, next_key, panicked, dirty_queue, batch_depth, in_propagation,
                   observers, value, prog, held, stack, tx_runs, tx_changed,
                   sorted_order, taken>>
    /\ UNCHANGED <<tickvars, domvars>>

\* scheduler.run(&graph)
SchedRun ==
    /\ ~panicked
    /\ sorted_order = <<>>
    /\ op' = Op("run", NoHandle, NoHandle)
    /\ run_input' = dirty_set
    /\ IF dirty_set = {}
       THEN UNCHANGED <<dirty_set, sorted_order, panicked>>
       ELSE LET r == RunOrder(nodes, dirty_set)
            IN  /\ dirty_set' = {}
                /\ panicked' = r.panic
                /\ sorted_order' = IF r.panic THEN <<>> ELSE r.order
    /\ UNCHANGED <<nodes, next_key, dirty_queue, batch_depth, in_propagation,
                   observers, value, prog, held, stack, tx_runs, tx_changed, taken>>
    /\ UNCHANGED <<tickvars, domvars>>

\* the caller is done with the order it got (execute(order))
Execute ==
    /\ ~panicked
    /\ op.name = "run"
    /\ sorted_order' = <<>>
    /\ run_input' = {}
    /\ op' = NoOp
    /\ UNCHANGED <<nodes, next_key, panicked, dirty_queue, batch_depth, in_propagation,
                   observers, value, prog, held, stack, tx_runs, tx_changed,
                   dirty_set, taken>>
    /\ UNCHANGED <<tickvars, domvars>>

CanRead(a) == IsType(a, "Memo") \/ IsType(a, "Effect")
CanBeRead(b) == IsType(b, "Signal") \/ IsType(b, "Memo")

\* with_observer(n, f) where f reads `reads`: clear_dependencies, then one
\* track_read per handle.  An execution in which a read closes a cycle panics
\* before the scheduler is used again and is left out here.
Rerun(n, reads) ==
    /\ ~panicked
    /\ CanRead(n)
    /\ \A r \in reads : r # n /\ CanBeRead(r) /\ DepthOf(nodes, r) < MaxDepth
    /\ LET tr == TrackReads(ClearDependencies(nodes, n), [h \in Allocated |-> 0],
                            n, reads)
       IN  /\ ~tr.panic
           /\ nodes' = tr.nodes
    /\ op' = NoOp
    /\ UNCHANGED <<next_key, panicked, sigvars>>

\* Signal::new, or Memo::new / Effect::new with a closure that reads `reads`:
\* allocate_node, set_update_fn and the first execution, seen from the graph
SchedNew(node_type, reads) ==
    /\ ~panicked
    /\ node_type = "Signal" => reads = {}
    /\ \A r \in reads : CanBeRead(r)
    /\ LET id == next_key + 1
           fresh == Allocate(nodes, id, node_type)
           tr == TrackReads(ClearDependencies(SetUpdateFn(fresh, id), id),
                            [h \in 1..id |-> 0], id, reads)
       IN  /\ next_key' = id
           /\ nodes' = IF node_type = "Signal" THEN fresh ELSE tr.nodes
    /\ op' = NoOp
    /\ UNCHANGED <<panicked, sigvars>>

\* The scheduler on the graphs that the constructors build: signals, and memos
\* and effects whose first execution reads any of the signals and memos made
\* before.  Any handles can be scheduled; the caller executes the order it got
\* before it touches the graph or the scheduler again.
NextSched ==
    \/ /\ dirty_set = {} /\ op.name # "run" /\ next_key < MaxSchedHandles
       /\ \E t \in NodeTypes, reads \in SUBSET Live(nodes) : SchedNew(t, reads)
    \/ op.name # "run" /\ \E ids \in SUBSET Allocated : Schedule(ids)
    \/ op.name # "run" /\ SchedRun
    \/ Execute

SpecSched == Init /\ [][NextSched]_vars

\* The same with thunks that are executed again and then read other nodes than
\* before, and with nodes that are removed.
NextSchedRerun ==
    \/ /\ dirty_set = {} /\ op.name # "run" /\ next_key < MaxRerunHandles
       /\ \E t \in NodeTypes, reads \in SUBSET Live(nodes) : SchedNew(t, reads)
    \/ /\ dirty_set = {} /\ op.name # "run"
       /\ \E n \in Live(nodes), reads \in SUBSET Live(nodes) : Rerun(n, reads)
    \/ dirty_set = {} /\ op.name # "run" /\ \E a \in Live(nodes) : GRemoveNode(a)
    \/ op.name # "run" /\ \E ids \in SUBSET Allocated : Schedule(ids)
    \/ op.name # "run" /\ SchedRun
    \/ Execute

SpecSchedRerun == Init /\ [][NextSchedRerun]_vars

\* ------------------------------------------- nexa-scheduler: task queues
\* tasks that can be pending when the caller schedules another one
MaxTasks == 3

\* A task is a boxed closure: the queue it was scheduled on, a label (the n-th
\* pending task when it was scheduled), what it schedules when it runs ("none",
\* a queue, or "again": a new closure like itself, told apart by gen, the parity
\* of its generation), and who scheduled it.
TaskKinds == {"micro", "effect", "layout"}

Task(kind, tag, spawn) ==
    [kind |-> kind, tag |-> tag, spawn |-> spawn, by |-> "user", gen |-> 0]

\* the task a running task t schedules
Child(t) ==
    IF t.spawn = "again" THEN [t EXCEPT !.gen = 1 - @]
    ELSE [kind |-> t.spawn, tag |-> t.tag, spawn |-> "none", by |-> t.kind, gen |-> 0]

\* TaskQueue::push with push_front
PushFront(q, task) == <<task>> \o q

\* TaskQueue::push
Push(q, task) == Append(q, task)

\* TaskQueue::pop with pop_back
PopBack(q) == [task |-> q[Len(q)], rest |-> SubSeq(q, 1, Len(q) - 1)]

\* TaskQueue::pop on a non-empty queue
PopFront(q) == [task |-> Head(q), rest |-> Tail(q)]

\* the three queues after task t, popped from queue `kind`, has run
AfterTask(kind, t, rest) ==
    LET qs == [micro |-> IF kind = "micro" THEN rest ELSE microtasks,
               effect |-> IF kind = "effect" THEN rest ELSE effects,
               layout |-> IF kind = "layout" THEN rest ELSE layout_effects]
    IN  IF t.spawn = "none" THEN qs
        ELSE [qs EXCEPT ![Child(t).kind] = Push(@, Child(t))]

TickLogCap == 2 * (MaxTasks + 1)

Logged(log, t) == IF Len(log) < TickLogCap THEN Append(log, t) ELSE log

Pending == Len(microtasks) + Len(effects) + Len(layout_effects)

sigstate == <<nodes, next_key, dirty_queue, batch_depth, in_propagation, observers,
              value, prog, held, stack, panicked, op, tx_runs, tx_changed>>

\* schedule_microtask / schedule_effect / schedule_layout_effect called between
\* two ticks
ScheduleTask(kind, spawn) ==
    /\ tick_pc = "idle"
    /\ Pending < MaxTasks
    /\ LET t == Task(kind, Pending + 1, spawn)
       IN  /\ microtasks' = IF kind = "micro" THEN Push(microtasks, t) ELSE microtasks
           /\ effects' = IF kind = "effect" THEN Push(effects, t) ELSE effects
           /\ layout_effects' = IF kind = "layout" THEN Push(layout_effects, t)
                                ELSE layout_effects
    /\ tick_log' = <<>>
    /\ tick_start' = [micro |-> <<>>, effect |-> <<>>, layout |-> <<>>]
    /\ UNCHANGED <<tick_pc, sigstate, schedvars, taken, domvars>>

\* tick() is entered
TickBegin ==
    /\ tick_pc = "idle"
    /\ Pending > 0
    /\ tick_pc' = "micro"
    /\ tick_log' = <<>>
    /\ tick_start' = [micro |-> microtasks, effect |-> effects, layout |-> layout_effects]
    /\ UNCHANGED <<microtasks, effects, layout_effects, sigstate, schedvars, taken, domvars>>

\* TaskQueue::drain of the queue tick() is at: one turn of
\* `while let Some(task) = self.pop() { task(); }`, or the loop ends and tick()
\* goes on to the next queue
DrainTurn(kind, queue, next_pc) ==
    /\ tick_pc = kind
    /\ IF queue = <<>>
       THEN /\ tick_pc' = next_pc
            /\ UNCHANGED <<microtasks, effects, layout_effects, tick_log>>
       ELSE LET p == PopFront(queue)
                qs == AfterTask(kind, p.task, p.rest)
            IN  /\ microtasks' = qs.micro
                /\ effects' = qs.effect
                /\ layout_effects' = qs.layout
                /\ tick_log' = Logged(tick_log, p.task)
                /\ UNCHANGED tick_pc
    /\ UNCHANGED <<tick_start, sigstate, schedvars, taken, domvars>>

TickMicrotasks == DrainTurn("micro", microtasks, "effect")
TickEffects == DrainTurn("effect", effects, "layout")
TickLayoutEffects == DrainTurn("layout", layout_effects, "idle")

\* tasks that end: they schedule nothing or one task that schedules nothing
NextTick ==
    \/ \E kind \in TaskKinds, spawn \in TaskKinds \cup {"none"} : ScheduleTask(kind, spawn)
    \/ TickBegin
    \/ TickMicrotasks
    \/ TickEffects
    \/ TickLayoutEffects

SpecTick == Init /\ [][NextTick]_vars

\* also tasks that schedule a copy of themselves; tick() is a synchronous call
\* that keeps running until it returns
NextTickLoop ==
    \/ \E kind \in TaskKinds, spawn \in TaskKinds \cup {"none", "again"} :
          ScheduleTask(kind, spawn)
    \/ TickBegin
    \/ TickMicrotasks
    \/ TickEffects
    \/ TickLayoutEffects

SpecTickLoop ==
    Init /\ [][NextTickLoop]_vars
         /\ WF_vars(TickMicrotasks \/ TickEffects \/ TickLayoutEffects)

\* ------------------------------------------- properties of the task queues
KindRank(kind) == CASE kind = "micro" -> 0 [] kind = "effect" -> 1 [] kind = "layout" -> 2

\* the tasks of one queue that tick() has run, in the order it ran them
RanOf(kind) == SelectSeq(tick_log, LAMBDA t : t.kind = kind)

\* a microtask that a running microtask scheduled
Chained(t) == t.kind = "micro" /\ t.by = "micro"

\* C14: tick() runs microtasks, then effects, then layout effects; the tasks
\* that were pending when it began run first in their queue, in the order they
\* were enqueued, and all of them have run when tick() returns.
C14_TickTierOrder ==
    /\ \A i, j \in 1..Len(tick_log) :
          i < j => KindRank(tick_log[i].kind) <= KindRank(tick_log[j].kind)
    /\ \A kind \in TaskKinds :
          /\ \A i \in 1..Min(Len(RanOf(kind)), Len(tick_start[kind])) :
                RanOf(kind)[i] = tick_start[kind][i]
          /\ tick_pc = "idle" => Len(RanOf(kind)) >= Len(tick_start[kind])

\* C14 witness: effect, layout effect and microtask were scheduled in this
\* order and the tick ran microtask, effect, layout effect
C14_Witness ==
    /\ tick_pc = "idle"
    /\ Len(tick_log) = 3
    /\ tick_log[1].kind = "micro" /\ tick_log[1].tag = 3
    /\ tick_log[2].kind = "effect" /\ tick_log[2].tag = 1
    /\ tick_log[3].kind = "layout" /\ tick_log[3].tag = 2

\* C15: a microtask scheduled by a running microtask runs in the same tick():
\* once scheduled it is in the queue or has run, it is not left in the queue
\* when the microtasks are done, it runs after the microtasks that were queued
\* before it and before every effect and layout effect.
C15_MicrotaskChaining ==
    /\ \A i \in 1..Len(tick_log) :
          (tick_log[i].kind = "micro" /\ tick_log[i].spawn = "micro")
              => \/ \E k \in 1..Len(microtasks) : microtasks[k] = Child(tick_log[i])
                 \/ \E j \in (i + 1)..Len(tick_log) : tick_log[j] = Child(tick_log[i])
    /\ tick_pc # "micro" => \A k \in 1..Len(microtasks) : ~Chained(microtasks[k])
    /\ \A i, j \in 1..Len(tick_log) :
          i < j =>
             /\ Chained(tick_log[j]) => tick_log[i].kind = "micro"
             /\ (Chained(tick_log[i]) /\ tick_log[j].kind = "micro")
                   => Chained(tick_log[j])

\* C15 witness: the first microtask scheduled another one, which ran after the
\* second microtask and before the pending effect
C15_Witness ==
    /\ tick_pc = "effect"
    /\ effects # <<>>
    /\ Len(tick_log) = 3
    /\ tick_log[1].spawn = "micro" /\ tick_log[1].by = "user"
    /\ tick_log[2].kind = "micro" /\ tick_log[2].by = "user"
    /\ tick_log[3] = Child(tick_log[1])

\* C16: the drain of the microtask queue always ends and tick() goes on to the
\* effects
C16_MicrotaskCap == (tick_pc = "micro") ~> (tick_pc = "effect")

\* ---------------------------------------------- properties of the scheduler
InOrder(h) == \E i \in 1..Len(sorted_order) : sorted_order[i] = h
Pos(h) == CHOOSE i \in 1..Len(sorted_order) : sorted_order[i] = h

\* C11: an order that run returned lists exactly the forward closure of the
\* drained dirty set, each handle once, every edge inside the closure going
\* forward; and run leaves the scheduler's dirty set empty.
C11_TopologicalClosure ==
    /\ sorted_order # <<>> =>
          /\ {sorted_order[i] : i \in 1..Len(sorted_order)}
                = run_input \cup UNION {Downstream(nodes, h) : h \in run_input}
          /\ \A i, j \in 1..Len(sorted_order) :
                sorted_order[i] = sorted_order[j] => i = j
          /\ \A u, v \in Live(nodes) :
                (InOrder(u) /\ InOrder(v) /\ v \in nodes[u].subscribers)
                    => Pos(u) < Pos(v)
    /\ op.name = "run" => dirty_set = {}

\* C11 witness: an order of three nodes, one of them reached only through
\* another subscriber
C11_Witness ==
    /\ Len(sorted_order) = 3
    /\ \E h \in run_input : \E v \in Downstream(nodes, h) :
          v \notin run_input /\ v \notin nodes[h].subscribers


\* C12: an order that run returned is ascending in (tier, depth, handle): no
\* Effect before a Signal or Memo, within a tier no deeper node before a
\* shallower one, and equal tier and depth in ascending handle order.
C12_PriorityOrder ==
    \A i, j \in 1..Len(sorted_order) :
        i < j =>
            LET a == sorted_order[i]
                b == sorted_order[j]
            IN  \/ Tier(nodes, a) < Tier(nodes, b)
                \/ Tier(nodes, a) = Tier(nodes, b) /\ nodes[a].depth < nodes[b].depth
                \/ /\ Tier(nodes, a) = Tier(nodes, b)
                   /\ nodes[a].depth = nodes[b].depth
                   /\ a < b

\* a Vec of handles in ascending depth, equal depths in ascending handle order
DepthHandleSorted(ns, q) ==
    \A i, j \in 1..Len(q) :
        i < j => \/ DepthOf(ns, q[i]) < DepthOf(ns, q[j])
                 \/ DepthOf(ns, q[i]) = DepthOf(ns, q[j]) /\ q[i] < q[j]

\* C13: whenever the dirty set is drained, by take_dirty or by a pass of the
\* propagation loop, the handles come out in ascending depth with ties in
\* ascending handle order (so the order is a function of graph and dirty set).
C13_DeterministicDrain ==
    [][(dirty_queue # {} /\ dirty_queue' = {})
        => IF op'.name = "take_dirty"
           THEN DepthHandleSorted(nodes, taken')
           ELSE DepthHandleSorted(nodes, stack'[Len(stack')].todo)]_vars

\* --------------------------------------------- properties of propagation
Quiescent == stack = <<>> /\ ~panicked

\* what the closure of h yields when everything it reads is up to date
\* (closures of Spec, SpecStatic and SpecDiamond read older handles only)
RECURSIVE Ideal(_), IdealSum(_)
Ideal(h) ==
    IF IsType(h, "Signal") THEN value[h]
    ELSE Apply(prog[h].fn, IdealSum(prog[h].reads))
IdealSum(hs) ==
    IF hs = {} THEN 0
    ELSE LET h == CHOOSE x \in hs : TRUE IN Ideal(h) + IdealSum(hs \ {h})

\* an update thunk is about to be executed by the propagation a write started
ThunkStarts(n) ==
    /\ stack # <<>>
    /\ Top.k = "thunk"
    /\ Top.node = n
    /\ in_propagation
    /\ op.name = "set"

\* C4: when propagation executes the thunk of n after a write to s, every
\* dependency of n downstream of s has completed its re-execution: none of them
\* still holds a value that is stale with respect to the write.
C4_GlitchFree ==
    \A n \in Live(nodes) :
        ThunkStarts(n) =>
            \A d \in Deps(n) \cap Downstream(nodes, op.a) :
                tx_runs[d] > 0 \/ value[d] = Ideal(d)


\* C5: in the diamond c runs once when it is constructed, once for a write that
\* changes s and not at all for a write that does not, and then holds a + b
\* computed from the new s (s = 2 gives 7).
C5_Diamond ==
    4 \in Live(nodes) =>
        /\ op.name \in {"new", "set"} => tx_runs[4] <= 1
        /\ Quiescent =>
            /\ value[4] = 2 * value[1] + (value[1] + 1)
            /\ (op.name = "new" /\ op.a = 4) => tx_runs[4] = 1
            /\ (op.name = "set" /\ ~op.same) => tx_runs[4] = 1
            /\ (op.name = "set" /\ op.same) => tx_runs[4] = 0

\* C5 witness: s.set(2) was propagated, c ran once and is 7
C5_Witness ==
    /\ Quiescent
    /\ 4 \in Live(nodes)
    /\ op.name = "set" /\ ~op.same
    /\ value[1] = 2 /\ value[2] = 4 /\ value[3] = 3 /\ value[4] = 7
    /\ tx_runs[4] = 1

\* C6: Signal::set with the stored value changes neither the value, the dirty
\* set nor an edge, starts no propagation and runs no thunk.
C6_EqualSetNoOp ==
    [][(Idle /\ op'.name = "set" /\ op'.same)
        => /\ UNCHANGED <<nodes, dirty_queue, value, in_propagation, stack,
                          observers, batch_depth>>
           /\ \A h \in Allocated : tx_runs'[h] = 0]_vars

\* C6 witness: an equal value was written to a signal that has an observer
C6_Witness ==
    /\ Quiescent
    /\ op.name = "set" /\ op.same
    /\ Subs(op.a) # {}
    /\ batch_depth = 0

Frames == {stack[i] : i \in 1..Len(stack)}

Consistent(e) == value[e] = Apply(prog[e].fn, SumOf(value, prog[e].reads))

\* C7: while a batch is open no propagation runs and the only thunk executed is
\* the first run of a node being created; a write inside a batch only inserts
\* the subscribers into the dirty set; propagation starts in a state with an
\* open batch only by the exit of the outermost batch; after that exit every
\* effect has seen the final values of what it reads.
C7_BatchSuppression ==
    /\ [](batch_depth > 0 =>
            /\ ~in_propagation
            /\ \A f \in Frames : f.k = "thunk" /\ op.name = "new" /\ f.node = op.a)
    /\ []((Quiescent /\ batch_depth = 0 /\ op.name = "batch_end") =>
            \A e \in Live(nodes) : IsType(e, "Effect") => Consistent(e))
    /\ [][/\ (Idle /\ batch_depth > 0 /\ op'.name = "set" /\ ~op'.same)
             => /\ dirty_queue' = dirty_queue \cup Subs(op'.a)
                /\ stack' = <<>>
                /\ \A h \in Allocated : tx_runs'[h] = 0
          /\ (batch_depth > 0 /\ in_propagation')
             => /\ op'.name = "batch_end"
                /\ batch_depth' = 0
                /\ dirty_queue # {}]_vars

\* C7 witness: the outermost batch was left, the propagation is over and an
\* effect has run in it
C7_Witness ==
    /\ Quiescent
    /\ batch_depth = 0
    /\ op.name = "batch_end"
    /\ \E e \in Live(nodes) :
          /\ IsType(e, "Effect")
          /\ tx_runs[e] = 1
          /\ value[e] = 1
          /\ \E r \in prog[e].reads : IsType(r, "Signal")

\* C8: after the exit of a batch each effect runs at most once
C8_EffectOnce ==
    (op.name = "batch_end" /\ batch_depth = 0) =>
        \A e \in Live(nodes) : IsType(e, "Effect") => tx_runs[e] <= 1

\* C9: the propagation loop always terminates
C9_Terminates == in_propagation ~> ~in_propagation

\* C10: a node is in the graph only while the user or a live closure holds a
\* clone of its handle, and once it is gone its thunk is not executed again:
\* propagate() starts no activation of it, also when it is still in the dirty
\* set or in the batch being drained.
C10_AutoCleanup ==
    /\ \A h \in Live(nodes) : h \in held \/ \E g \in Live(nodes) : h \in Refs(prog, g)
    /\ \A h \in Allocated \ Live(nodes) :
          /\ tx_runs[h] = 0
          /\ \A f \in Frames : f.k = "prop" \/ f.node # h
          /\ \A g \in Live(nodes) : h \notin nodes[g].dependencies \cup nodes[g].subscribers

\* C10 witness: propagate() comes to a handle that was dropped while dirty
C10_Witness ==
    /\ stack # <<>>
    /\ Top.k = "prop"
    /\ Top.todo # <<>>
    /\ Head(Top.todo) \notin Live(nodes)
    /\ ~panicked

\* ====================================================== nexa-core: the VDOM
\* keyed children carry the keys 1..MaxKeys
MaxKeys == 5
\* calls of run_root (mount and re-renders) in one behaviour
MaxRenders == 3

\* AppendChildren { id: 0, .. }: the mount container
Container == 0
\* Option<NodeId>::None
NoNode == 0
\* Element.key: None
NoKey == 0
\* Component.scope: None
NoScope == 0

\* str(n) of a small integer
Digits == <<"0", "1", "2", "3", "4", "5", "6", "7", "8", "9">>
Str(n) == Digits[n + 1]

\* A slot of the arena: the VirtualNode and, next to it, the NodeMetadata that
\* insert_with_metadata stores under the same key.  A string is a tuple of
\* pieces; props is a list of <<name, value>> pairs.
ElementNode(tag, key, children, listeners) ==
    [kind |-> "Element", tag |-> tag, text |-> <<>>, key |-> key,
     children |-> children, listeners |-> listeners, props |-> <<>>,
     is_static |-> FALSE, render_count |-> 0]

TextNode(text) ==
    [kind |-> "Text", tag |-> "", text |-> text, key |-> NoKey,
     children |-> <<>>, listeners |-> <<>>, props |-> <<>>,
     is_static |-> FALSE, render_count |-> 0]

\* VirtualNode::Fragment
FragmentNode(children) ==
    [kind |-> "Fragment", tag |-> "", text |-> <<>>, key |-> NoKey,
     children |-> children, listeners |-> <<>>, props |-> <<>>,
     is_static |-> FALSE, render_count |-> 0]

\* VirtualNode::Component { name, render_fn, scope: None }: tag holds the name
ComponentNode(name) ==
    [kind |-> "Component", tag |-> name, text |-> <<>>, key |-> NoKey,
     children |-> <<>>, listeners |-> <<>>, props |-> <<>>,
     is_static |-> FALSE, render_count |-> 0, scope |-> NoScope]

\* Element { props, .. }
WithProps(node, props) == [node EXCEPT !.props = props]

\* insert_with_metadata(node, NodeMetadata { is_static, render_count })
WithMetadata(node, is_static, count) ==
    [node EXCEPT !.is_static = is_static, !.render_count = count]

\* a Mutation record: its variant, its id field, its list m and its string
Mutation(name, id, m, string) == [name |-> name, id |-> id, m |-> m, value |-> string]

\* arena.nodes.get(id)
InArena(ar, id) == id \in 1..Len(ar)

\* Differ::flatten_node; the scope of a Component is None in every arena here
RECURSIVE FlattenNode(_, _), FlattenAll(_, _)
FlattenAll(ar, children) ==
    IF children = <<>> THEN <<>>
    ELSE FlattenNode(ar, Head(children)) \o FlattenAll(ar, Tail(children))

FlattenNode(ar, id) ==
    IF ~InArena(ar, id) THEN <<>>
    ELSE IF ar[id].kind \in {"Element", "Text"} THEN <<id>>
    ELSE IF ar[id].kind = "Fragment" THEN FlattenAll(ar, ar[id].children)
    ELSE <<>>

\* a first_dom_node that finds no reference sibling
FirstDomNodeNone(ar, id) == NoNode

\* Differ::first_dom_node
FirstDomNode(ar, id) ==
    LET flat == FlattenNode(ar, id) IN IF flat = <<>> THEN NoNode ELSE Head(flat)

\* str::to_lowercase of a listener name
ToLowercase(name) ==
    CASE name = "Click" -> "click"
      [] name = "Input" -> "input"
      [] OTHER -> name

\* SetAttribute per prop
RECURSIVE PropRecords(_, _)
PropRecords(id, props) ==
    IF props = <<>> THEN <<>>
    ELSE <<Mutation("SetAttribute", id, <<>>, Head(props))>>
         \o PropRecords(id, Tail(props))

\* NewEventListener per listener
RECURSIVE ListenerRecords(_, _)
ListenerRecords(id, listeners) ==
    IF listeners = <<>> THEN <<>>
    ELSE <<Mutation("NewEventListener", id, <<>>, <<ToLowercase(Head(listeners))>>)>>
         \o ListenerRecords(id, Tail(listeners))

\* Differ::create_tree of a tree without Component nodes
RECURSIVE CreateTree(_, _), CreateChildren(_, _)
CreateChildren(ar, children) ==
    IF children = <<>> THEN <<>>
    ELSE CreateTree(ar, Head(children)) \o CreateChildren(ar, Tail(children))

CreateTree(ar, id) ==
    IF ~InArena(ar, id) THEN <<>>
    ELSE IF ar[id].kind = "Element"
    THEN LET child_ids == FlattenAll(ar, ar[id].children)
         IN  <<Mutation("CreateElement", id, <<>>, <<ar[id].tag>>)>>
             \o PropRecords(id, ar[id].props)
             \o ListenerRecords(id, ar[id].listeners)
             \o CreateChildren(ar, ar[id].children)
             \o (IF child_ids # <<>>
                 THEN <<Mutation("AppendChildren", id, child_ids, <<>>)>>
                 ELSE <<>>)
    ELSE IF ar[id].kind = "Text"
    THEN <<Mutation("CreateTextNode", id, <<>>, ar[id].text)>>
    ELSE IF ar[id].kind = "Fragment" THEN CreateChildren(ar, ar[id].children)
    ELSE <<>>

\* a Vec indexed from 0
VecLen(v) == Cardinality(DOMAIN v)
EmptyVec == [j \in {} |-> 0]

\* calculate_lis comparing with >
LisGreater(a, b) == a > b

\* calculate_lis: arr[m[mid]] < arr[i]
LisLess(a, b) == a < b

\* calculate_lis: the binary search for new_l
RECURSIVE LisSearch(_, _, _, _, _)
LisSearch(arr, m, i, lo, hi) ==
    IF lo <= hi
    THEN LET mid == (lo + hi + 1) \div 2
         IN  IF LisLess(arr[m[mid]], arr[i])
             THEN LisSearch(arr, m, i, mid + 1, hi)
             ELSE LisSearch(arr, m, i, lo, mid - 1)
    ELSE lo

\* calculate_lis: for i in 0..arr.len()
RECURSIVE LisScan(_, _, _, _, _)
LisScan(arr, i, p, m, l) ==
    IF i = VecLen(arr) THEN [p |-> p, m |-> m, l |-> l]
    ELSE IF arr[i] = -1 THEN LisScan(arr, i + 1, p, m, l)
    ELSE LET new_l == LisSearch(arr, m, i, 1, l)
         IN  LisScan(arr, i + 1, [p EXCEPT ![i] = m[new_l - 1]],
                     [m EXCEPT ![new_l] = i], Max(l, new_l))

\* calculate_lis: for i in (0..l).rev() { res[i] = k; k = p[k]; }
RECURSIVE LisBack(_, _, _, _)
LisBack(p, res, i, k) ==
    IF i < 0 THEN res ELSE LisBack(p, [res EXCEPT ![i] = k], i - 1, p[k])

\* calculate_lis returning no index
LisEmpty(arr) == EmptyVec

\* Differ::calculate_lis
CalculateLis(arr) ==
    IF VecLen(arr) = 0 THEN EmptyVec
    ELSE LET n == VecLen(arr)
             s == LisScan(arr, 0, [j \in 0..(n - 1) |-> 0], [j \in 0..n |-> 0], 0)
         IN  LisBack(s.p, [j \in 0..(s.l - 1) |-> 0], s.l - 1, s.m[s.l])

\* diff_children: old_map, the last old index of a key
OldIndex(ar, old_c, key) ==
    LET hits == {j \in 1..Len(old_c) :
                    /\ InArena(ar, old_c[j])
                    /\ ar[old_c[j]].kind = "Element"
                    /\ ar[old_c[j]].key = key}
    IN  IF key = NoKey \/ hits = {} THEN -1
        ELSE (CHOOSE j \in hits : \A k \in hits : k <= j) - 1

\* diff_children: source
Source(ar, old_c, new_c) ==
    [i \in 0..(Len(new_c) - 1) |->
        IF InArena(ar, new_c[i + 1]) /\ ar[new_c[i + 1]].kind = "Element"
        THEN OldIndex(ar, old_c, ar[new_c[i + 1]].key)
        ELSE -1]

\* diff_children without its last loop
RemoveNone(old_c, source, i) == <<>>

\* diff_children: Remove of every old child whose index is not in source
RECURSIVE RemoveAbsent(_, _, _)
RemoveAbsent(old_c, source, i) ==
    IF i > Len(old_c) THEN <<>>
    ELSE (IF \E j \in DOMAIN source : source[j] = i - 1 THEN <<>>
          ELSE <<Mutation("Remove", old_c[i], <<>>, <<>>)>>)
         \o RemoveAbsent(old_c, source, i + 1)

RECURSIVE RemoveEach(_)
RemoveEach(old_c) ==
    IF old_c = <<>> THEN <<>>
    ELSE <<Mutation("Remove", Head(old_c), <<>>, <<>>)>> \o RemoveEach(Tail(old_c))

\* Differ::replace_node
ReplaceNode(ar, old_id, new_id, parent) ==
    CreateTree(ar, new_id)
    \o <<Mutation("InsertBefore", parent, <<new_id>>, <<>>),
         Mutation("Remove", old_id, <<>>, <<>>)>>

\* Differ::diff_attributes: the first old attribute of that name
RECURSIVE FindProp(_, _)
FindProp(props, name) ==
    IF props = <<>> THEN <<>>
    ELSE IF Head(props)[1] = name THEN Head(props) ELSE FindProp(Tail(props), name)

\* Differ::diff_attributes: for new_attr in &new_el.props
RECURSIVE SetChanged(_, _, _)
SetChanged(id, old_props, new_props) ==
    IF new_props = <<>> THEN <<>>
    ELSE (IF FindProp(old_props, Head(new_props)[1]) = Head(new_props) THEN <<>>
          ELSE <<Mutation("SetAttribute", id, <<>>, Head(new_props))>>)
         \o SetChanged(id, old_props, Tail(new_props))

\* Differ::diff_attributes: for old_attr in &old_el.props
RECURSIVE RemoveGone(_, _, _)
RemoveGone(id, old_props, new_props) ==
    IF old_props = <<>> THEN <<>>
    ELSE (IF FindProp(new_props, Head(old_props)[1]) # <<>> THEN <<>>
          ELSE <<Mutation("RemoveAttribute", id, <<>>, <<Head(old_props)[1]>>)>>)
         \o RemoveGone(id, Tail(old_props), new_props)

\* diff_attributes that sets every attribute of the new Element
DiffAttributesAll(id, old_props, new_props) ==
    PropRecords(id, new_props) \o RemoveGone(id, old_props, new_props)

\* Differ::diff_attributes
DiffAttributes(id, old_props, new_props) ==
    SetChanged(id, old_props, new_props) \o RemoveGone(id, old_props, new_props)

\* What a part of a diff did: the records it pushed (m), the new nodes whose
\* metadata.render_count it incremented (counted), and how often it incremented
\* profiling.diff_count (diffs).
Did(m, counted, diffs) == [m |-> m, counted |-> counted, diffs |-> diffs]
Then(a, b) == Did(a.m \o b.m, a.counted \o b.counted, a.diffs + b.diffs)

\* diff_nodes that never takes the static fast path
SkipsNever(ar, new_id) == FALSE

\* diff_nodes: is_static && old_count > 0 of the metadata of new_id
\* (unwrap_or_default: no metadata, not static)
SkipsDiff(ar, new_id) ==
    InArena(ar, new_id) /\ ar[new_id].is_static /\ ar[new_id].render_count > 0

RECURSIVE DiffNodes(_, _, _, _), DiffChildren(_, _, _, _), DiffMatched(_, _, _, _, _, _),
          PlaceChildren(_, _, _, _, _, _, _)

\* diff_children: the loop over the new children from the last to the first
PlaceChildren(ar, parent, new_c, source, lis, i, lis_idx) ==
    IF i < 0 THEN <<>>
    ELSE LET new_child_id == new_c[i + 1]
             next_sibling_id == IF i + 1 < Len(new_c)
                                THEN FirstDomNode(ar, new_c[i + 2]) ELSE NoNode
             flattened_ids == FlattenNode(ar, new_child_id)
             placed == IF flattened_ids = <<>> THEN <<>>
                       ELSE IF next_sibling_id # NoNode
                       THEN <<Mutation("InsertBefore", next_sibling_id, flattened_ids, <<>>)>>
                       ELSE <<Mutation("AppendChildren", parent, flattened_ids, <<>>)>>
         IN  IF source[i] = -1
             THEN CreateTree(ar, new_child_id) \o placed
                  \o PlaceChildren(ar, parent, new_c, source, lis, i - 1, lis_idx)
             ELSE IF lis_idx < 0 \/ i # lis[lis_idx]
             THEN placed \o PlaceChildren(ar, parent, new_c, source, lis, i - 1, lis_idx)
             ELSE PlaceChildren(ar, parent, new_c, source, lis, i - 1, lis_idx - 1)

\* diff_children: diff_nodes of every matched pair, in the order of the new children
DiffMatched(ar, parent, old_c, new_c, source, i) ==
    IF i >= Len(new_c) THEN Did(<<>>, <<>>, 0)
    ELSE Then(IF source[i] = -1 THEN Did(<<>>, <<>>, 0)
              ELSE DiffNodes(ar, old_c[source[i] + 1], new_c[i + 1], parent),
              DiffMatched(ar, parent, old_c, new_c, source, i + 1))

\* Differ::diff_children
DiffChildren(ar, parent, old_c, new_c) ==
    IF old_c = <<>> /\ new_c = <<>> THEN Did(<<>>, <<>>, 1)
    ELSE IF old_c = <<>>
    THEN Did(CreateChildren(ar, new_c)
             \o <<Mutation("AppendChildren", parent, new_c, <<>>)>>, <<>>, 1)
    ELSE IF new_c = <<>> THEN Did(RemoveEach(old_c), <<>>, 1)
    ELSE LET source == Source(ar, old_c, new_c)
             lis == CalculateLis(source)
             matched == DiffMatched(ar, parent, old_c, new_c, source, 0)
         IN  Did(matched.m
                 \o PlaceChildren(ar, parent, new_c, source, lis, Len(new_c) - 1,
                                  VecLen(lis) - 1)
                 \o RemoveAbsent(old_c, source, 1),
                 matched.counted, matched.diffs + 1)

\* Differ::diff_nodes on Elements, Texts and Fragments
DiffNodes(ar, old_id, new_id, parent) ==
    LET replaced == IF parent # NoNode THEN ReplaceNode(ar, old_id, new_id, parent) ELSE <<>>
        entered == Did(<<>>, IF InArena(ar, new_id) THEN <<new_id>> ELSE <<>>, 1)
    IN  IF SkipsDiff(ar, new_id) THEN Did(<<>>, <<>>, 0)
        ELSE IF ~InArena(ar, old_id) \/ ~InArena(ar, new_id) THEN entered
        ELSE IF ar[old_id].kind # ar[new_id].kind THEN Then(entered, Did(replaced, <<>>, 0))
        ELSE IF ar[new_id].kind = "Text"
        THEN Then(entered,
                  Did(IF ar[old_id].text # ar[new_id].text
                      THEN <<Mutation("SetText", new_id, <<>>, ar[new_id].text)>>
                      ELSE <<>>, <<>>, 0))
        ELSE IF ar[old_id].tag # ar[new_id].tag THEN Then(entered, Did(replaced, <<>>, 0))
        ELSE Then(Then(entered,
                       Did(DiffAttributes(new_id, ar[old_id].props, ar[new_id].props),
                           <<>>, 0)),
                  DiffChildren(ar, new_id, ar[old_id].children, ar[new_id].children))

\* the arena after meta.render_count += 1 for every node of `counted`
Recount(ar, counted) ==
    [id \in 1..Len(ar) |->
        [ar[id] EXCEPT !.render_count =
            @ + Cardinality({j \in 1..Len(counted) : counted[j] = id})]]

\* ------------------------------------------------- calls of Differ::diff_nodes
\* a render that inserts one keyed <li> per key and then their <ul>
RECURSIVE InsertItems(_, _)
InsertItems(ar, keys) ==
    IF keys = <<>> THEN ar
    ELSE InsertItems(Append(ar, ElementNode("li", Head(keys), <<>>, <<>>)), Tail(keys))

RenderKeyed(ar, keys) ==
    LET items == InsertItems(ar, keys)
    IN  Append(items, ElementNode("ul", NoKey, [i \in 1..Len(keys) |-> Len(ar) + i], <<>>))

\* the keys of the mounted list: 1..n in order
OldLists == {[i \in 1..n |-> i] : n \in 0..MaxKeys}

\* the keys of the re-rendered list: distinct keys in any order
NewLists ==
    UNION {{f \in [1..n -> 1..MaxKeys] : \A i, j \in 1..n : f[i] = f[j] => i = j}
           : n \in 0..MaxKeys}

RenderOld(keys) ==
    /\ root_fn = "none"
    /\ diff_old = NoNode
    /\ arena' = RenderKeyed(arena, keys)
    /\ UNCHANGED metadata
    /\ diff_old' = Len(arena')
    /\ UNCHANGED <<mutation_buffer, rtvars, diff_new, diff_done, diff_count>>
    /\ UNCHANGED <<sigstate, schedvars, taken, tickvars>>

RenderNew(keys) ==
    /\ diff_old # NoNode
    /\ diff_new = NoNode
    /\ arena' = RenderKeyed(arena, keys)
    /\ UNCHANGED metadata
    /\ diff_new' = Len(arena')
    /\ UNCHANGED <<mutation_buffer, rtvars, diff_old, diff_done, diff_count>>
    /\ UNCHANGED <<sigstate, schedvars, taken, tickvars>>

\* differ.diff_nodes(old_root, new_root, None)
DiffRoots ==
    /\ diff_new # NoNode
    /\ ~diff_done
    /\ LET did == DiffNodes(arena, diff_old, diff_new, NoNode)
       IN  /\ mutation_buffer' = mutation_buffer \o did.m
           /\ arena' = Recount(arena, did.counted)
           /\ UNCHANGED metadata
           /\ diff_count' = diff_count + did.diffs
    /\ diff_done' = TRUE
    /\ UNCHANGED <<rtvars, diff_old, diff_new>>
    /\ UNCHANGED <<sigstate, schedvars, taken, tickvars>>

NextDiff ==
    \/ \E keys \in OldLists : RenderOld(keys)
    \/ \E keys \in NewLists : RenderNew(keys)
    \/ DiffRoots

SpecDiff == Init /\ [][NextDiff]_vars

\* ------------------------------------- diff_nodes on trees with static nodes
\* keyed children of the nested lists carry the keys 1..MaxNested
MaxNested == 3
\* NodeMetadata.render_count of an inserted node is 0..MaxCount
MaxCount == 1
\* is_static of no node of the render
NoStatic == -1

\* a render that inserts, per key, a keyed <span> and the keyed <li> holding it;
\* the node whose key is `static` is inserted with
\* NodeMetadata { is_static: true, render_count: count }
RECURSIVE InsertNested(_, _, _, _, _)
InsertNested(ar, keys, inner, static, count) ==
    IF keys = <<>> THEN ar
    ELSE LET a1 == Append(ar, ElementNode("span", inner, <<>>, <<>>))
             li == ElementNode("li", Head(keys), <<Len(a1)>>, <<>>)
             a2 == Append(a1, WithMetadata(li, Head(keys) = static,
                                           IF Head(keys) = static THEN count ELSE 0))
         IN  InsertNested(a2, Tail(keys), inner, static, count)

\* ... and then their <ul>, whose key is None
RenderNested(ar, keys, inner, static, count) ==
    LET items == InsertNested(ar, keys, inner, static, count)
        ul == ElementNode("ul", NoKey, [i \in 1..Len(keys) |-> Len(ar) + 2 * i], <<>>)
    IN  Append(items, WithMetadata(ul, static = NoKey,
                                   IF static = NoKey THEN count ELSE 0))

NestedOldLists == {[i \in 1..n |-> i] : n \in 0..MaxNested}

NestedNewLists ==
    UNION {{f \in [1..n -> 1..MaxNested] : \A i, j \in 1..n : f[i] = f[j] => i = j}
           : n \in 0..MaxNested}

RenderOldNested(keys) ==
    /\ root_fn = "none"
    /\ diff_old = NoNode
    /\ arena' = RenderNested(arena, keys, 1, NoStatic, 0)
    /\ UNCHANGED metadata
    /\ diff_old' = Len(arena')
    /\ UNCHANGED <<mutation_buffer, rtvars, diff_new, diff_done, diff_count>>
    /\ UNCHANGED <<sigstate, schedvars, taken, tickvars>>

RenderNewNested(keys, inner, static, count) ==
    /\ diff_old # NoNode
    /\ diff_new = NoNode
    /\ arena' = RenderNested(arena, keys, inner, static, count)
    /\ UNCHANGED metadata
    /\ diff_new' = Len(arena')
    /\ UNCHANGED <<mutation_buffer, rtvars, diff_old, diff_done, diff_count>>
    /\ UNCHANGED <<sigstate, schedvars, taken, tickvars>>

NextDiffStatic ==
    \/ \E keys \in NestedOldLists : RenderOldNested(keys)
    \/ \E keys \in NestedNewLists, inner \in 1..2, static \in NoStatic..MaxNested,
          count \in 0..MaxCount : RenderNewNested(keys, inner, static, count)
    \/ DiffRoots

SpecDiffStatic == Init /\ [][NextDiffStatic]_vars

\* --------------------------------- diff_nodes on two nodes that may differ
\* what a render returns inside a <section>: an Element of some tag holding a
\* text, a Text, or a Fragment holding a text
Shapes == {"div", "span", "p", "text", "fragment"}
Texts == {"a", "b"}

\* a render that inserts the text, the node of that shape and the <section>
\* that holds it
RenderShape(ar, shape, text) ==
    LET a1 == Append(ar, TextNode(<<text>>))
        node == CASE shape = "text" -> TextNode(<<text>>)
                  [] shape = "fragment" -> FragmentNode(<<Len(a1)>>)
                  [] OTHER -> ElementNode(shape, NoKey, <<Len(a1)>>, <<>>)
        a2 == Append(a1, node)
    IN  Append(a2, ElementNode("section", NoKey, <<Len(a2)>>, <<>>))

RenderOldShape(shape, text) ==
    /\ root_fn = "none"
    /\ diff_old = NoNode
    /\ arena' = RenderShape(arena, shape, text)
    /\ UNCHANGED metadata
    /\ diff_old' = Len(arena') - 1
    /\ UNCHANGED <<mutation_buffer, rtvars, diff_new, diff_done, diff_count>>
    /\ UNCHANGED <<sigstate, schedvars, taken, tickvars>>

RenderNewShape(shape, text) ==
    /\ diff_old # NoNode
    /\ diff_new = NoNode
    /\ arena' = RenderShape(arena, shape, text)
    /\ UNCHANGED metadata
    /\ diff_new' = Len(arena') - 1
    /\ UNCHANGED <<mutation_buffer, rtvars, diff_old, diff_done, diff_count>>
    /\ UNCHANGED <<sigstate, schedvars, taken, tickvars>>

\* differ.diff_nodes(old_id, new_id, parent): parent is None or the new <section>
DiffPair(with_parent) ==
    /\ diff_new # NoNode
    /\ ~diff_done
    /\ LET parent == IF with_parent THEN Len(arena) ELSE NoNode
           did == DiffNodes(arena, diff_old, diff_new, parent)
       IN  /\ mutation_buffer' = mutation_buffer \o did.m
           /\ arena' = Recount(arena, did.counted)
           /\ UNCHANGED metadata
           /\ diff_count' = diff_count + did.diffs
    /\ diff_done' = TRUE
    /\ UNCHANGED <<rtvars, diff_old, diff_new>>
    /\ UNCHANGED <<sigstate, schedvars, taken, tickvars>>

NextDiffPair ==
    \/ \E shape \in Shapes, text \in Texts : RenderOldShape(shape, text)
    \/ \E shape \in Shapes, text \in Texts : RenderNewShape(shape, text)
    \/ \E with_parent \in BOOLEAN : DiffPair(with_parent)

SpecDiffPair == Init /\ [][NextDiffPair]_vars

\* ------------------------------------------ the two arenas of VDomArena
\* nodes SpecMeta inserts
MaxMetaNodes == 4

\* NodeMetadata { is_static, render_count }
NodeMetadata(is_static, count) == [is_static |-> is_static, render_count |-> count]

\* GenericArena::get on the metadata arena: None is <<>>, Some(x) is <<x>>
GetMetadata(md, id) == IF id \in 1..Len(md) THEN <<md[id]>> ELSE <<>>

\* arena.insert_with_metadata(Element, NodeMetadata { is_static, render_count }):
\* the node goes into nodes, the record into metadata under the next key of
\* that SlotMap
InsertWithMetadata(is_static, count) ==
    /\ Len(arena) < MaxMetaNodes
    /\ arena' = Append(arena, WithMetadata(ElementNode("div", NoKey, <<>>, <<>>),
                                           is_static, count))
    /\ metadata' = Append(metadata, NodeMetadata(is_static, count))
    /\ UNCHANGED <<mutation_buffer, rtvars, diffvars>>
    /\ UNCHANGED <<sigstate, schedvars, taken, tickvars>>

\* arena.nodes.insert(Text): the node arena alone
InsertNode(text) ==
    /\ Len(arena) < MaxMetaNodes
    /\ arena' = Append(arena, TextNode(<<text>>))
    /\ UNCHANGED <<metadata, mutation_buffer, rtvars, diffvars>>
    /\ UNCHANGED <<sigstate, schedvars, taken, tickvars>>

NextMeta ==
    \/ \E is_static \in BOOLEAN, count \in 0..MaxCount : InsertWithMetadata(is_static, count)
    \/ \E text \in Texts : InsertNode(text)

SpecMeta == Init /\ [][NextMeta]_vars

\* ------------------------------- diff_nodes on two Elements with attributes
\* attributes of an Element
MaxProps == 3
AttrNames == {"class", "id", "title"}
AttrValues == {"x", "y"}

\* Element.props: a Vec of attributes with distinct names
PropLists ==
    UNION {{f \in [1..n -> AttrNames \X AttrValues] :
               \A i, j \in 1..n : f[i][1] = f[j][1] => i = j}
           : n \in 0..MaxProps}

RenderOldProps(props) ==
    /\ root_fn = "none"
    /\ diff_old = NoNode
    /\ arena' = Append(arena, WithProps(ElementNode("div", NoKey, <<>>, <<>>), props))
    /\ UNCHANGED metadata
    /\ diff_old' = Len(arena')
    /\ UNCHANGED <<mutation_buffer, rtvars, diff_new, diff_done, diff_count>>
    /\ UNCHANGED <<sigstate, schedvars, taken, tickvars>>

RenderNewProps(props) ==
    /\ diff_old # NoNode
    /\ diff_new = NoNode
    /\ arena' = Append(arena, WithProps(ElementNode("div", NoKey, <<>>, <<>>), props))
    /\ UNCHANGED metadata
    /\ diff_new' = Len(arena')
    /\ UNCHANGED <<mutation_buffer, rtvars, diff_old, diff_done, diff_count>>
    /\ UNCHANGED <<sigstate, schedvars, taken, tickvars>>

NextDiffProps ==
    \/ \E props \in PropLists : RenderOldProps(props)
    \/ \E props \in PropLists : RenderNewProps(props)
    \/ DiffRoots

SpecDiffProps == Init /\ [][NextDiffProps]_vars

\* ------------------------------------------- the Differ on trees with Components
\* The Differ as a state transformer: st.ar is the arena, st.sc the scope table,
\* st.m the records pushed so far, st.diffs what was added to
\* profiling.diff_count.  Rendering a component inserts nodes, create_tree of a
\* Component inserts a Scope and writes the Component node, and flatten_node
\* reads both, so every step takes the state the step before it left.
Scope(name, root) == [name |-> name, root_node |-> root]

Emit(st, records) == [st EXCEPT !.m = @ \o records]

\* the render functions: child_component returns a <span>, any other a <p>
RenderComponent(ar, name) ==
    Append(ar, ElementNode(IF name = "Child" THEN "span" ELSE "p", NoKey, <<>>, <<>>))

\* scopes.get(scope_id).root_node of the scope of a Component node
ScopeRoot(ar, sc, id) ==
    IF ar[id].scope # NoScope /\ ar[id].scope \in 1..Len(sc)
    THEN sc[ar[id].scope].root_node
    ELSE NoNode

\* Differ::flatten_node
RECURSIVE ScopedFlatten(_, _, _), ScopedFlattenAll(_, _, _)
ScopedFlattenAll(ar, sc, children) ==
    IF children = <<>> THEN <<>>
    ELSE ScopedFlatten(ar, sc, Head(children)) \o ScopedFlattenAll(ar, sc, Tail(children))

ScopedFlatten(ar, sc, id) ==
    IF ~InArena(ar, id) THEN <<>>
    ELSE IF ar[id].kind \in {"Element", "Text"} THEN <<id>>
    ELSE IF ar[id].kind = "Fragment" THEN ScopedFlattenAll(ar, sc, ar[id].children)
    ELSE IF ScopeRoot(ar, sc, id) # NoNode THEN ScopedFlatten(ar, sc, ScopeRoot(ar, sc, id))
    ELSE <<>>

\* Differ::first_dom_node
ScopedFirst(ar, sc, id) ==
    LET flat == ScopedFlatten(ar, sc, id) IN IF flat = <<>> THEN NoNode ELSE Head(flat)

\* Differ::create_tree
RECURSIVE ScopedCreateTree(_, _), ScopedCreateChildren(_, _, _)
ScopedCreateChildren(st, children, child_ids) ==
    IF children = <<>> THEN [st |-> st, child_ids |-> child_ids]
    ELSE LET s1 == ScopedCreateTree(st, Head(children))
         IN  ScopedCreateChildren(s1, Tail(children),
                                  child_ids \o ScopedFlatten(s1.ar, s1.sc, Head(children)))

ScopedCreateTree(st, id) ==
    IF ~InArena(st.ar, id) THEN st
    ELSE LET node == st.ar[id]
         IN  IF node.kind = "Element"
             THEN LET s1 == Emit(st, <<Mutation("CreateElement", id, <<>>, <<node.tag>>)>>
                                     \o PropRecords(id, node.props)
                                     \o ListenerRecords(id, node.listeners))
                      r == ScopedCreateChildren(s1, node.children, <<>>)
                  IN  IF r.child_ids # <<>>
                      THEN Emit(r.st, <<Mutation("AppendChildren", id, r.child_ids, <<>>)>>)
                      ELSE r.st
             ELSE IF node.kind = "Text"
             THEN Emit(st, <<Mutation("CreateTextNode", id, <<>>, node.text)>>)
             ELSE IF node.kind = "Fragment"
             THEN ScopedCreateChildren(st, node.children, <<>>).st
             ELSE LET scope_id == Len(st.sc) + 1
                      rendered == RenderComponent(st.ar, node.tag)
                      root_id == Len(rendered)
                  IN  ScopedCreateTree(
                          [st EXCEPT !.sc = Append(st.sc, Scope(node.tag, root_id)),
                                     !.ar = [rendered EXCEPT ![id].scope = scope_id]],
                          root_id)

\* Differ::replace_node
ScopedReplace(st, old_id, new_id, parent) ==
    Emit(ScopedCreateTree(st, new_id),
         <<Mutation("InsertBefore", parent, <<new_id>>, <<>>),
           Mutation("Remove", old_id, <<>>, <<>>)>>)

RECURSIVE ScopedDiffNodes(_, _, _, _), ScopedDiffChildren(_, _, _, _),
          ScopedDiffMatched(_, _, _, _, _, _), ScopedPlace(_, _, _, _, _, _, _)

\* diff_children: the loop over the new children from the last to the first
ScopedPlace(st, parent, new_c, source, lis, i, lis_idx) ==
    IF i < 0 THEN st
    ELSE LET new_child_id == new_c[i + 1]
             next_sibling_id == IF i + 1 < Len(new_c)
                                THEN ScopedFirst(st.ar, st.sc, new_c[i + 2]) ELSE NoNode
             s1 == IF source[i] = -1 THEN ScopedCreateTree(st, new_child_id) ELSE st
             flattened_ids == ScopedFlatten(s1.ar, s1.sc, new_child_id)
             placed == IF flattened_ids = <<>> THEN s1
                       ELSE IF next_sibling_id # NoNode
                       THEN Emit(s1, <<Mutation("InsertBefore", next_sibling_id,
                                                flattened_ids, <<>>)>>)
                       ELSE Emit(s1, <<Mutation("AppendChildren", parent,
                                                flattened_ids, <<>>)>>)
         IN  IF source[i] = -1 \/ lis_idx < 0 \/ i # lis[lis_idx]
             THEN ScopedPlace(placed, parent, new_c, source, lis, i - 1, lis_idx)
             ELSE ScopedPlace(st, parent, new_c, source, lis, i - 1, lis_idx - 1)

\* diff_children: diff_nodes of every matched pair, in the order of the new children
ScopedDiffMatched(st, parent, old_c, new_c, source, i) ==
    IF i >= Len(new_c) THEN st
    ELSE ScopedDiffMatched(
             IF source[i] = -1 THEN st
             ELSE ScopedDiffNodes(st, old_c[source[i] + 1], new_c[i + 1], parent),
             parent, old_c, new_c, source, i + 1)

\* Differ::diff_children
ScopedDiffChildren(st, parent, old_c, new_c) ==
    LET s0 == [st EXCEPT !.diffs = @ + 1]
    IN  IF old_c = <<>> /\ new_c = <<>> THEN s0
        ELSE IF old_c = <<>>
        THEN Emit(ScopedCreateChildren(s0, new_c, <<>>).st,
                  <<Mutation("AppendChildren", parent, new_c, <<>>)>>)
        ELSE IF new_c = <<>> THEN Emit(s0, RemoveEach(old_c))
        ELSE LET source == Source(s0.ar, old_c, new_c)
                 lis == CalculateLis(source)
                 s1 == ScopedDiffMatched(s0, parent, old_c, new_c, source, 0)
                 s2 == ScopedPlace(s1, parent, new_c, source, lis, Len(new_c) - 1,
                                   VecLen(lis) - 1)
             IN  Emit(s2, RemoveAbsent(old_c, source, 1))

\* Differ::diff_nodes
ScopedDiffNodes(st, old_id, new_id, parent) ==
    IF SkipsDiff(st.ar, new_id) THEN st
    ELSE LET s0 == [st EXCEPT
                      !.diffs = @ + 1,
                      !.ar = IF InArena(st.ar, new_id)
                             THEN [@ EXCEPT ![new_id].render_count = @ + 1] ELSE @]
             replaced == IF parent # NoNode
                         THEN ScopedReplace(s0, old_id, new_id, parent) ELSE s0
             old == s0.ar[old_id]
             new == s0.ar[new_id]
         IN  IF ~InArena(s0.ar, old_id) \/ ~InArena(s0.ar, new_id) THEN replaced
             ELSE IF old.kind # new.kind THEN replaced
             ELSE IF new.kind = "Text"
             THEN IF old.text # new.text
                  THEN Emit(s0, <<Mutation("SetText", new_id, <<>>, new.text)>>)
                  ELSE s0
             ELSE IF new.kind = "Element"
             THEN IF old.tag # new.tag THEN replaced
                  ELSE ScopedDiffChildren(
                           Emit(s0, DiffAttributes(new_id, old.props, new.props)),
                           new_id, old.children, new.children)
             ELSE IF new.kind = "Fragment"
             THEN ScopedDiffChildren(s0, new_id, old.children, new.children)
             ELSE IF old.tag # new.tag \/ old.scope = NoScope THEN replaced
             ELSE LET scope_id == old.scope
                      rendered == RenderComponent(
                                      [s0.ar EXCEPT ![new_id].scope = scope_id], new.tag)
                      new_root_id == Len(rendered)
                      has == scope_id \in 1..Len(s0.sc)
                      old_root_id == IF has THEN s0.sc[scope_id].root_node ELSE NoNode
                      s1 == [s0 EXCEPT
                               !.ar = rendered,
                               !.sc = IF has
                                      THEN [@ EXCEPT ![scope_id].root_node = new_root_id]
                                      ELSE @]
                  IN  IF old_root_id # NoNode
                      THEN ScopedDiffNodes(s1, old_root_id, new_root_id, parent)
                      ELSE LET s2 == ScopedCreateTree(s1, new_root_id)
                           IN  Emit(s2, <<Mutation("AppendChildren", parent,
                                                   ScopedFlatten(s2.ar, s2.sc, new_root_id),
                                                   <<>>)>>)

\* ------------------------------------------- renders of trees with Components
\* diffs (re-renders) after the mount in one behaviour
MaxDiffs == 2
\* children of the root <div>
MaxScoped == 2

\* what a child of the root is: the Component Child, the Component Other, a text
ChildShapes == {"Child", "Other", "text"}

\* what a render returns: the Component Child or Other itself, or a <div> with
\* up to MaxScoped children
RootShapes ==
    {<<"component", name>> : name \in {"Child", "Other"}}
    \cup {<<"div", c>> : c \in UNION {[1..n -> ChildShapes] : n \in 0..MaxScoped}}

RECURSIVE InsertShapes(_, _)
InsertShapes(ar, shapes) ==
    IF shapes = <<>> THEN ar
    ELSE InsertShapes(Append(ar, IF Head(shapes) = "text" THEN TextNode(<<"t">>)
                                 ELSE ComponentNode(Head(shapes))),
                      Tail(shapes))

\* a render function that inserts the nodes of the shape, the root last
RenderRoot(ar, shape) ==
    IF shape[1] = "component" THEN Append(ar, ComponentNode(shape[2]))
    ELSE LET items == InsertShapes(ar, shape[2])
         IN  Append(items, ElementNode("div", NoKey,
                                       [i \in 1..Len(shape[2]) |-> Len(ar) + i], <<>>))

\* what the Differ leaves behind
Commit(st) ==
    /\ arena' = st.ar
    /\ UNCHANGED metadata
    /\ scopes' = st.sc
    /\ mutation_buffer' = st.m
    /\ diff_count' = st.diffs

Differ == [ar |-> arena, sc |-> scopes, m |-> mutation_buffer, diffs |-> diff_count]

\* the first render: differ.create_tree(root)
ScopedMount(shape) ==
    /\ root_fn = "none"
    /\ diff_old = NoNode
    /\ LET rendered == RenderRoot(arena, shape)
       IN  /\ Commit(ScopedCreateTree([Differ EXCEPT !.ar = rendered], Len(rendered)))
           /\ diff_old' = Len(rendered)
    /\ UNCHANGED <<root_fn, root_node, render_count, cell, root_dirty, batch, batch_runs,
                   pending_runs, stream, rt_call, delivered, diff_new, diff_done>>
    /\ UNCHANGED <<sigstate, schedvars, taken, tickvars>>

\* a re-render: differ.diff_nodes(old_root, new_root, None); the new root is the
\* old root of the next one
ScopedRerender(shape) ==
    /\ diff_old # NoNode
    /\ render_count < MaxDiffs
    /\ render_count' = render_count + 1
    /\ LET rendered == RenderRoot(arena, shape)
       IN  /\ Commit(ScopedDiffNodes([Differ EXCEPT !.ar = rendered], diff_old,
                                     Len(rendered), NoNode))
           /\ diff_old' = Len(rendered)
    /\ UNCHANGED <<root_fn, root_node, cell, root_dirty, batch, batch_runs,
                   pending_runs, stream, rt_call, delivered, diff_new, diff_done>>
    /\ UNCHANGED <<sigstate, schedvars, taken, tickvars>>

NextScoped ==
    \/ \E shape \in RootShapes : ScopedMount(shape)
    \/ \E shape \in RootShapes : ScopedRerender(shape)

SpecScoped == Init /\ [][NextScoped]_vars

\* ------------------------------------------------------- nexa-core: Runtime
\* root components: a div with the text "n=<n>", a button with a click listener
\* and the text "<n>", a text that does not read n, the button of
\* test_attributes_and_listeners with three listeners, a div holding a Fragment
\* of two texts, and the div of test_mount_component holding the Component Child
Views == {"counter", "button", "label", "styled", "fragment", "component"}

ReadsCell(view) == view \in {"counter", "button"}

\* root_fn(): the nodes it inserts into the arena, the root last
RenderView(view, n, ar) ==
    CASE view = "counter" ->
            LET a1 == Append(ar, TextNode(<<"n=", Str(n)>>))
            IN  Append(a1, ElementNode("div", NoKey, <<Len(a1)>>, <<>>))
      [] view = "button" ->
            LET a1 == Append(ar, TextNode(<<Str(n)>>))
            IN  Append(a1, ElementNode("button", NoKey, <<Len(a1)>>, <<"click">>))
      [] view = "styled" ->
            Append(ar, WithProps(ElementNode("button", NoKey, <<>>,
                                             <<"Input", "click", "click">>),
                                 <<(<<"class", "btn-primary">>)>>))
      [] view = "fragment" ->
            LET a1 == Append(ar, TextNode(<<"a">>))
                a2 == Append(a1, TextNode(<<"b">>))
                a3 == Append(a2, FragmentNode(<<Len(a1), Len(a2)>>))
            IN  Append(a3, ElementNode("div", NoKey, <<Len(a3)>>, <<>>))
      [] view = "component" ->
            LET a1 == Append(ar, ComponentNode("Child"))
            IN  Append(a1, ElementNode("div", NoKey, <<Len(a1)>>, <<>>))
      [] OTHER -> Append(ar, TextNode(<<"Hello World">>))

\* Runtime::generate_initial_tree
RECURSIVE GenerateInitialTree(_, _), GenerateChildren(_, _)
GenerateChildren(ar, children) ==
    IF children = <<>> THEN <<>>
    ELSE GenerateInitialTree(ar, Head(children)) \o GenerateChildren(ar, Tail(children))

GenerateInitialTree(ar, id) ==
    IF ~InArena(ar, id) THEN <<>>
    ELSE IF ar[id].kind = "Element"
    THEN <<Mutation("CreateElement", id, <<>>, <<ar[id].tag>>)>>
         \o PropRecords(id, ar[id].props)
         \o ListenerRecords(id, ar[id].listeners)
         \o GenerateChildren(ar, ar[id].children)
         \o (IF ar[id].children # <<>>
             THEN <<Mutation("AppendChildren", id, ar[id].children, <<>>)>>
             ELSE <<>>)
    ELSE IF ar[id].kind = "Text"
    THEN <<Mutation("CreateTextNode", id, <<>>, ar[id].text)>>
    ELSE IF ar[id].kind = "Fragment" THEN GenerateChildren(ar, ar[id].children)
    ELSE <<>>

\* Runtime::flatten_children
RECURSIVE FlattenChildren(_, _)
FlattenChildren(ar, children) ==
    IF children = <<>> THEN <<>>
    ELSE (IF InArena(ar, Head(children)) /\ ar[Head(children)].kind = "Fragment"
          THEN FlattenChildren(ar, ar[Head(children)].children)
          ELSE <<Head(children)>>)
         \o FlattenChildren(ar, Tail(children))

\* Runtime::run_root: the records it pushes when root_fn returned the last node
\* of ar and old_root was the root before
RootRecords(ar, old_root) ==
    LET root_id == Len(ar)
        roots == FlattenChildren(ar, <<root_id>>)
    IN  (IF old_root # NoNode THEN <<Mutation("Remove", old_root, <<>>, <<>>)>> ELSE <<>>)
        \o <<Mutation("PushRoot", root_id, <<>>, <<>>)>>
        \o GenerateInitialTree(ar, root_id)
        \o (IF roots # <<>> THEN <<Mutation("AppendChildren", Container, roots, <<>>)>>
            ELSE <<>>)

\* Runtime::run_root with the root component view
RunRoot(view) ==
    LET ar == RenderView(view, cell, arena)
        recs == RootRecords(ar, root_node)
    IN  /\ arena' = ar
        /\ UNCHANGED metadata
        /\ root_node' = Len(ar)
        /\ mutation_buffer' = mutation_buffer \o recs
        /\ stream' = stream \o recs
        /\ pending_runs' = Append(pending_runs, [old |-> root_node, new |-> Len(ar)])
        /\ render_count' = render_count + 1

\* rt_call after a Runtime call that dispatches no event
NoCall ==
    [name |-> "none", id |-> 0, event |-> "", payload |-> "", invoked |-> <<>>,
     updated |-> FALSE]

\* runtime.mount("Root", view)
Mount(view) ==
    /\ root_fn = "none"
    /\ diff_old = NoNode
    /\ render_count < MaxRenders
    /\ root_fn' = view
    /\ scopes' = Append(scopes, "Root")
    /\ RunRoot(view)
    /\ root_dirty' = FALSE
    /\ rt_call' = NoCall
    /\ UNCHANGED <<cell, batch, batch_runs, delivered, diffvars>>
    /\ UNCHANGED <<sigstate, schedvars, taken, tickvars>>

\* n.set(v). The subscribers of n go to the dirty set; outside a batch
\* mark_subscribers_dirty calls propagate(), which drains the dirty set (the
\* root effect has no update_fn), inside a batch the root effect stays dirty
\* (kept) for the update() that follows.
SetCell(v, kept) ==
    /\ root_fn # "none"
    /\ v # cell
    /\ cell' = v
    /\ root_dirty' = (kept /\ (root_dirty \/ ReadsCell(root_fn)))
    /\ rt_call' = NoCall
    /\ UNCHANGED <<arena, metadata, mutation_buffer, root_fn, root_node, render_count, batch,
                   batch_runs, pending_runs, stream, scopes, delivered, diffvars>>
    /\ UNCHANGED <<sigstate, schedvars, taken, tickvars>>

\* runtime.update() with the root effect in the dirty set
Update ==
    /\ root_dirty
    /\ render_count < MaxRenders
    /\ RunRoot(root_fn)
    /\ root_dirty' = FALSE
    /\ rt_call' = NoCall
    /\ UNCHANGED <<root_fn, cell, batch, batch_runs, scopes, delivered, diffvars>>
    /\ UNCHANGED <<sigstate, schedvars, taken, tickvars>>

\* id and the nodes below it
RECURSIVE Subtree(_, _), SubtreeAll(_, _)
SubtreeAll(ar, children) ==
    IF children = <<>> THEN {}
    ELSE Subtree(ar, Head(children)) \cup SubtreeAll(ar, Tail(children))

Subtree(ar, id) ==
    IF ~InArena(ar, id) THEN {} ELSE {id} \cup SubtreeAll(ar, ar[id].children)

Range(f) == {f[i] : i \in DOMAIN f}

\* the ids events are dispatched to: the nodes of the mounted tree, the null
\* key and a key the arena never handed out
Targets == {0, Len(arena) + 1} \cup Subtree(arena, root_node)

\* the events dispatched and their payloads
EventNames == {"click", "input"}

\* the Event value dispatched with an event name
Payload(name) == IF name = "click" THEN "Click" ELSE "Input"

\* handle_event that takes the last listener of that name
RECURSIVE LastListener(_, _)
LastListener(listeners, name) ==
    IF listeners = <<>> THEN 0
    ELSE IF listeners[Len(listeners)] = name THEN Len(listeners)
    ELSE LastListener(SubSeq(listeners, 1, Len(listeners) - 1), name)

\* handle_event: the index of the first listener whose name == event_name, 0
\* when there is none
RECURSIVE FirstListener(_, _)
FirstListener(listeners, name) ==
    IF listeners = <<>> THEN 0
    ELSE IF Head(listeners) = name THEN 1
    ELSE LET k == FirstListener(Tail(listeners), name) IN IF k = 0 THEN 0 ELSE k + 1

\* handle_event: callback_to_run of the node the id addresses: a listener index
\* of an Element, 0 for a missing node and for any other kind of node
CallbackToRun(ar, node_id, name) ==
    IF InArena(ar, node_id) /\ ar[node_id].kind = "Element"
    THEN FirstListener(ar[node_id].listeners, name)
    ELSE 0

\* runtime.handle_event(node_id, name, Payload(name)): every listener
\* increments n (up to MaxVal); the update() that follows re-renders when the
\* root effect is in the dirty set it takes (kept, see SetCell)
HandleEvent(node_id, name, kept) ==
    /\ root_fn # "none"
    /\ LET k == CallbackToRun(arena, node_id, name)
           payload == Payload(name)
           rerender == kept /\ (root_dirty \/ ReadsCell(root_fn))
       IN  IF k = 0
           THEN /\ rt_call' = [name |-> "handle_event", id |-> node_id, event |-> name,
                               payload |-> payload, invoked |-> <<>>,
                               updated |-> FALSE]
                /\ UNCHANGED <<arena, metadata, root_node, mutation_buffer, stream, pending_runs,
                               render_count, cell, root_dirty>>
           ELSE /\ cell < MaxVal
                /\ cell' = cell + 1
                /\ rt_call' = [name |-> "handle_event", id |-> node_id, event |-> name,
                               payload |-> payload,
                               invoked |-> <<(<<Str(k), payload>>)>>,
                               updated |-> TRUE]
                /\ root_dirty' = FALSE
                /\ IF rerender /\ render_count < MaxRenders
                   THEN RunRoot(root_fn)
                   ELSE UNCHANGED <<arena, metadata, root_node, mutation_buffer, stream,
                                    pending_runs, render_count>>
    /\ UNCHANGED <<root_fn, batch, batch_runs, scopes, delivered, diffvars>>
    /\ UNCHANGED <<sigstate, schedvars, taken, tickvars>>

\* drain_mutations that returns a copy and keeps the buffer
DrainKeeps ==
    /\ root_fn # "none"
    /\ mutation_buffer # <<>> \/ batch # <<>>
    /\ batch' = mutation_buffer
    /\ batch_runs' = pending_runs
    /\ delivered' = delivered \o mutation_buffer
    /\ rt_call' = NoCall
    /\ UNCHANGED <<arena, metadata, mutation_buffer, pending_runs, root_fn, root_node,
                   render_count, cell, root_dirty, stream, scopes, diffvars>>
    /\ UNCHANGED <<sigstate, schedvars, taken, tickvars>>

\* runtime.drain_mutations()
DrainMutations ==
    /\ root_fn # "none"
    /\ mutation_buffer # <<>> \/ batch # <<>>
    /\ batch' = mutation_buffer
    /\ batch_runs' = pending_runs
    /\ mutation_buffer' = <<>>
    /\ pending_runs' = <<>>
    /\ delivered' = delivered \o mutation_buffer
    /\ rt_call' = NoCall
    /\ UNCHANGED <<arena, metadata, root_fn, root_node, render_count, cell, root_dirty, stream,
                   scopes, diffvars>>
    /\ UNCHANGED <<sigstate, schedvars, taken, tickvars>>

NextRuntime ==
    \/ \E view \in Views : Mount(view)
    \/ \E v \in 0..MaxVal, kept \in BOOLEAN : SetCell(v, kept)
    \/ Update
    \/ \E node_id \in Targets, name \in EventNames, kept \in BOOLEAN :
          HandleEvent(node_id, name, kept)
    \/ DrainMutations

SpecRuntime == Init /\ [][NextRuntime]_vars

\* ----------------------------------------------------- properties of the VDOM
\* the only run_root call whose records the last drained batch holds re-rendered
\* an element with one text child as the same element with another string
TextOnlyChange ==
    /\ Len(batch_runs) = 1
    /\ batch_runs[1].old # NoNode
    /\ LET old == arena[batch_runs[1].old]
           new == arena[batch_runs[1].new]
       IN  /\ old.kind = "Element" /\ new.kind = "Element"
           /\ old.tag = new.tag
           /\ Len(old.children) = 1 /\ Len(new.children) = 1
           /\ arena[old.children[1]].kind = "Text"
           /\ arena[new.children[1]].kind = "Text"
           /\ arena[old.children[1]].text # arena[new.children[1]].text

\* C17: when a re-render changed only the string of the text child of the
\* mounted element, the drained batch is the single record SetText with the new
\* string, addressed to the text node that was mounted.
C17_CounterUpdate ==
    TextOnlyChange =>
        batch = <<Mutation("SetText", arena[batch_runs[1].old].children[1], <<>>,
                           arena[arena[batch_runs[1].new].children[1]].text)>>

\* the keys of the children of an element
KeysOf(ar, id) == [i \in 1..Len(ar[id].children) |-> ar[ar[id].children[i]].key]

\* C18: diffing the keyed children [A,B,C,D,E] (keys 1..5) against [C,A,B,D,E]
\* emits exactly one record: InsertBefore with reference A and children [C].
C18_KeyedReorder ==
    (/\ diff_done
     /\ KeysOf(arena, diff_old) = <<1, 2, 3, 4, 5>>
     /\ KeysOf(arena, diff_new) = <<3, 1, 2, 4, 5>>)
        => /\ Len(mutation_buffer) = 1
           /\ mutation_buffer[1].name = "InsertBefore"
           /\ arena[mutation_buffer[1].id].key = 1
           /\ Len(mutation_buffer[1].m) = 1
           /\ arena[mutation_buffer[1].m[1]].key = 3

\* C18 witness: that diff has been made
C18_Witness ==
    /\ diff_done
    /\ KeysOf(arena, diff_old) = <<1, 2, 3, 4, 5>>
    /\ KeysOf(arena, diff_new) = <<3, 1, 2, 4, 5>>
    /\ mutation_buffer # <<>>

\* the index sets of the strictly increasing subsequences of the entries of
\* source that are not -1
Increasing(source) ==
    {S \in SUBSET DOMAIN source :
        /\ \A i \in S : source[i] # -1
        /\ \A i, j \in S : i < j => source[i] < source[j]}

LongestIncreasing(source) ==
    CHOOSE n \in 0..VecLen(source) :
        /\ \E S \in Increasing(source) : Cardinality(S) = n
        /\ \A S \in Increasing(source) : Cardinality(S) <= n

\* the source array of the diff that was made
DiffSource == Source(arena, arena[diff_old].children, arena[diff_new].children)

\* the records that place a child that was matched with an old child
MoveRecords ==
    {r \in 1..Len(mutation_buffer) :
        /\ mutation_buffer[r].name \in {"InsertBefore", "AppendChildren"}
        /\ \E i \in DOMAIN DiffSource :
              /\ DiffSource[i] # -1
              /\ mutation_buffer[r].m = <<arena[diff_new].children[i + 1]>>}

Matched(source) == Cardinality({i \in DOMAIN source : source[i] # -1})

\* C19: diff_children emits as many move records as there are matched children
\* off a longest strictly increasing subsequence of source (|new| - L for a
\* permutation), none when the order is unchanged, and calculate_lis returns
\* the indices, ascending, of such a longest subsequence without -1 entries.
C19_LisMinimality ==
    diff_done =>
        LET source == DiffSource
            lis == CalculateLis(source)
            L == LongestIncreasing(source)
        IN  /\ VecLen(lis) = L
            /\ \A a \in DOMAIN lis : lis[a] \in DOMAIN source /\ source[lis[a]] # -1
            /\ \A a, b \in DOMAIN lis :
                  a < b => (lis[a] < lis[b] /\ source[lis[a]] < source[lis[b]])
            /\ Cardinality(MoveRecords) = Matched(source) - L
            /\ (Matched(source) = VecLen(source) /\ VecLen(source) = Len(arena[diff_old].children))
                  => Cardinality(MoveRecords) = VecLen(source) - L
            /\ KeysOf(arena, diff_old) = KeysOf(arena, diff_new) => MoveRecords = {}

\* C19 witness: a permutation of five children with a longest increasing
\* subsequence of length 3 was diffed with two moves
C19_Witness ==
    /\ diff_done
    /\ KeysOf(arena, diff_old) = <<1, 2, 3, 4, 5>>
    /\ KeysOf(arena, diff_new) = <<2, 1, 4, 3, 5>>
    /\ LongestIncreasing(DiffSource) = 3
    /\ Cardinality(MoveRecords) = 2

Creates == {"CreateElement", "CreateTextNode", "CreatePlaceholder"}

\* the ids a record refers to without creating them
Referenced(rec) ==
    ((IF rec.name \in Creates THEN {} ELSE {rec.id})
        \cup {rec.m[k] : k \in 1..Len(rec.m)}) \ {Container}

\* C20: every id a record of the stream refers to, other than the container,
\* was created by an earlier record and has not been removed since.
C20_WellFormed ==
    \A i \in 1..Len(stream) : \A x \in Referenced(stream[i]) :
        \E j \in 1..(i - 1) :
            /\ stream[j].name \in Creates /\ stream[j].id = x
            /\ \A k \in (j + 1)..(i - 1) : ~(stream[k].name = "Remove" /\ stream[k].id = x)

\* ------------------------------------------------- properties of the diff
\* the new children of `new` that diff_children matches with an old child of `old`
MatchedBelow(old, new) ==
    {n \in Range(arena[new].children) :
        \E o \in Range(arena[old].children) : arena[o].key = arena[n].key}

\* the new nodes diff_nodes is called on when nothing is skipped: the new root,
\* its matched children and their matched children
DiffCalls ==
    {diff_new}
    \cup MatchedBelow(diff_old, diff_new)
    \cup UNION {MatchedBelow(o, n) :
                  <<o, n>> \in {p \in Range(arena[diff_old].children)
                                      \X Range(arena[diff_new].children) :
                                  arena[p[1]].key = arena[p[2]].key}}

\* the calls whose new node is flagged static and was rendered before
StaticCalls ==
    {n \in DiffCalls : arena[n].is_static /\ arena[n].render_count >= 1}

\* the subtrees of the static calls
Skipped == UNION {Subtree(arena, n) : n \in StaticCalls}

\* the records the step pushes
NewRecords ==
    {mutation_buffer'[j] : j \in (Len(mutation_buffer) + 1)..Len(mutation_buffer')}

\* C21: diff_nodes on a new node whose metadata is static with
\* render_count >= 1 returns at once: the metadata of the node and of every node
\* below it stay as they are and no record is pushed for them, and when the
\* skipped node is the root the diff counter and the mutation buffer stay as
\* they are; every other call still increments the render_count of its new node
\* and the diff counter (twice per element pair: diff_nodes and diff_children).
C21_StaticSkip ==
    [][(~diff_done /\ diff_done') =>
        /\ \A id \in Skipped : arena'[id] = arena[id]
        /\ \A id \in DiffCalls \ Skipped :
              arena'[id].render_count = arena[id].render_count + 1
        /\ diff_count' = diff_count + 2 * Cardinality(DiffCalls \ Skipped)
        /\ \A r \in NewRecords, n \in StaticCalls :
              /\ r.id \notin Subtree(arena, n) \ {n}
              /\ Range(r.m) \cap (Subtree(arena, n) \ {n}) = {}
              /\ r.name = "AppendChildren" => r.id # n
        /\ diff_new \in StaticCalls =>
              /\ mutation_buffer' = mutation_buffer
              /\ diff_count' = diff_count
              /\ arena' = arena]_vars

\* a diff returned that skipped a static <li> rendered once, whose <span> was
\* rendered under another key, and diffed a <li> next to it
C21_Witness ==
    /\ diff_done
    /\ diff_count = 6
    /\ \E n, m \in Range(arena[diff_new].children) :
          /\ arena[n].is_static
          /\ arena[n].render_count = 1
          /\ arena[n].key \in {arena[o].key : o \in Range(arena[diff_old].children)}
          /\ arena[arena[n].children[1]].key = 2
          /\ arena[arena[n].children[1]].render_count = 0
          /\ ~arena[m].is_static
          /\ arena[m].render_count = 1
          /\ arena[arena[m].children[1]].render_count = 0

\* ------------------------------------------------- properties of the Runtime
CreateNames == {"CreateElement", "CreateTextNode"}

\* the record at position i of the stream creates an element and is followed by
\* its SetAttribute records, then its NewEventListener records, and, when it has
\* children, later by exactly one AppendChildren for it
ElementOrder(i) ==
    LET e == stream[i].id
        props == arena[e].props
        listeners == arena[e].listeners
        np == Len(props)
        nl == Len(listeners)
        appends == {j \in DOMAIN stream :
                      stream[j].name = "AppendChildren" /\ stream[j].id = e}
    IN  /\ i + np + nl <= Len(stream)
        /\ \A k \in 1..np : stream[i + k] = Mutation("SetAttribute", e, <<>>, props[k])
        /\ \A k \in 1..nl :
              stream[i + np + k]
                = Mutation("NewEventListener", e, <<>>, <<ToLowercase(listeners[k])>>)
        /\ arena[e].children # <<>> =>
              /\ Cardinality(appends) = 1
              /\ \A j \in appends : j > i + np + nl

\* every id an AppendChildren lists was created by an earlier record
ChildrenCreated(j) ==
    \A c \in Range(stream[j].m) :
        \E i \in 1..(j - 1) : stream[i].name \in CreateNames /\ stream[i].id = c

\* C22: the records of an Element come in the order CreateElement, SetAttribute
\* per attribute, NewEventListener per listener, the subtrees of the children,
\* one AppendChildren for the element; every id an AppendChildren lists was
\* created before it; the batch of mount ends with the AppendChildren to the
\* container.
C22_CreationOrder ==
    /\ \A i \in DOMAIN stream : stream[i].name = "CreateElement" => ElementOrder(i)
    /\ \A j \in DOMAIN stream : stream[j].name = "AppendChildren" => ChildrenCreated(j)
    /\ render_count = 1 =>
          /\ stream # <<>>
          /\ stream[Len(stream)].name = "AppendChildren"
          /\ stream[Len(stream)].id = Container

\* C23: after the mount of the div that holds the Component Child, the component
\* has its Scope (next to the one of the root), its render thunk ran once (one
\* span is in the arena), the stream creates that span, and the AppendChildren
\* of the div lists the span and not the Component node.
C23_ComponentMount ==
    (root_fn = "component" /\ render_count = 1) =>
        LET spans == {id \in 1..Len(arena) : arena[id].tag = "span"}
            div == root_node
        IN  /\ scopes = <<"Root", "Child">>
            /\ Cardinality(spans) = 1
            /\ \A sp \in spans :
                  /\ \E i \in DOMAIN stream :
                        stream[i] = Mutation("CreateElement", sp, <<>>, <<"span">>)
                  /\ \E j \in DOMAIN stream :
                        stream[j] = Mutation("AppendChildren", div, <<sp>>, <<>>)
            /\ \A j \in DOMAIN stream : \A c \in Range(stream[j].m) :
                  InArena(arena, c) => arena[c].kind # "Component"

\* the listeners of the node a handle_event call addressed that carry its name
Matching(call) ==
    IF InArena(arena, call.id) /\ arena[call.id].kind = "Element"
    THEN {k \in 1..Len(arena[call.id].listeners) :
            arena[call.id].listeners[k] = call.event}
    ELSE {}

\* C24: handle_event invokes the first listener of the addressed Element whose
\* name equals the event name, once, with the payload, and then calls update();
\* with a missing node, a node that is no Element or no listener of that name it
\* invokes nothing, does not call update() and leaves the mutation buffer, the
\* arena and the cell with its dirty mark as they are.
C24_EventDispatch ==
    [][rt_call'.name = "handle_event" =>
        LET call == rt_call'
            hits == Matching(call)
        IN  IF hits = {}
            THEN /\ call.invoked = <<>>
                 /\ ~call.updated
                 /\ UNCHANGED <<mutation_buffer, arena, metadata, cell, root_dirty, stream,
                                render_count>>
            ELSE /\ call.invoked
                      = <<(<<Str(CHOOSE k \in hits : \A h \in hits : k <= h),
                             call.payload>>)>>
                 /\ call.updated
                 /\ cell' = cell + 1]_vars

\* the second of the two click listeners of the styled button (behind one named
\* Input) was invoked with the payload Click
C24_Witness ==
    /\ rt_call.name = "handle_event"
    /\ rt_call.event = "click"
    /\ InArena(arena, rt_call.id)
    /\ arena[rt_call.id].listeners = <<"Input", "click", "click">>
    /\ rt_call.invoked = <<(<<"2", "Click">>)>>
    /\ rt_call.updated

\* C25: drain_mutations returns the buffer as it is and leaves it empty, a drain
\* right after a drain returns the empty list, and at any time the records
\* pushed so far are the drained ones followed by the buffer: each is delivered
\* once, in the order of emission.
C25_AtomicDrain ==
    [][/\ (batch' # batch \/ delivered' # delivered) =>
            /\ batch' = mutation_buffer
            /\ mutation_buffer' = <<>>
            /\ delivered' = delivered \o batch'
       /\ mutation_buffer = <<>> => (batch' # batch => batch' = <<>>)
       /\ stream' = delivered' \o mutation_buffer']_vars

\* the second drain that returned records, after a re-render
C25_Witness ==
    /\ batch # <<>>
    /\ Len(delivered) > Len(batch)
    /\ mutation_buffer = <<>>
    /\ stream = delivered

\* ------------------------------------------------ properties of stale handles
\* a recorded Graph call one of whose handles has no node
OnStaleHandle(call) ==
    \/ /\ call.name \in {"set_update_fn", "clear_dependencies", "remove_node"}
       /\ call.a \notin Live(nodes)
    \/ /\ call.name = "add_dependency"
       /\ call.a \notin Live(nodes) \/ call.b \notin Live(nodes)

\* C26: add_dependency with a removed subscriber or dependency, and
\* clear_dependencies, remove_node and set_update_fn on a removed handle, return
\* without a panic and leave every node (dependencies, subscribers, depth) and
\* the dirty set as they are.
C26_StaleNoOp ==
    [][OnStaleHandle(op') =>
        /\ ~panicked'
        /\ nodes' = nodes
        /\ dirty_queue' = dirty_queue]_vars

\* ------------------------------------------------------ properties of panics
\* the nodes whose closure is running, outermost first: the observers that
\* with_observer pushed and has not popped yet
RECURSIVE Running(_)
Running(st) ==
    IF st = <<>> THEN <<>>
    ELSE (IF Head(st).k = "fin" THEN <<Head(st).node>> ELSE <<>>) \o Running(Tail(st))

\* C27: a panic of an update thunk during a propagation pass loses nothing: when
\* it has left propagate() no node of the drained order is left unexecuted and
\* no node is left in the dirty set, the in_propagation flag is reset whenever
\* no call is running, and a later write outside a batch starts a propagation.
C27_PanicIsolation ==
    [][/\ op'.name = "catch_unwind" =>
            /\ \A i \in DOMAIN stack : stack[i].k = "prop" => stack[i].todo = <<>>
            /\ dirty_queue = {}
       /\ Idle' => ~in_propagation'
       /\ (op'.name = "set" /\ ~op'.same /\ batch_depth = 0 /\ op' # op) =>
            stack' # <<>>]_vars

\* C28: whenever no panic is unwinding, the observer stack holds exactly the
\* nodes whose closure is still running, outermost first: each with_observer
\* that has returned or was left by a panic has restored the stack it found.
C28_ScopedRestore ==
    ~panicked => observers = Running(stack)

\* the step recomputes memo n (not its first run) and its closure returns
MemoStep(n) ==
    /\ ~panicked /\ ~panicked'
    /\ stack # <<>>
    /\ Top.k = "thunk" /\ Top.node = n
    /\ IsType(n, "Memo")
    /\ value[n] # NoVal

\* what the closure of memo n returns in the current state
Recomputed(n) == Apply(prog[n].fn, SumOf(value, Reads(prog[n], value)))

\* C29: when the thunk of a Memo recomputes a value equal to the cached one,
\* the cache is kept and no node is marked dirty; when the value differs, the
\* cache is replaced and every subscriber of the Memo is in the dirty queue.
\* In the propagation of a set, a node runs only if one of its dependencies
\* got a different value: a subscriber that reaches the written signal only
\* through memos that recomputed an equal value does not run.
C29_MemoGate ==
    /\ [][\A n \in Live(nodes) : MemoStep(n) =>
             IF Recomputed(n) = value[n]
             THEN /\ value'[n] = value[n]
                  /\ dirty_queue' = dirty_queue
             ELSE /\ value'[n] = Recomputed(n)
                  /\ nodes'[n].subscribers \subseteq dirty_queue']_vars
    /\ [](op.name = "set" =>
             \A e \in Live(nodes) :
                 tx_runs[e] >= 1 => nodes[e].dependencies \cap tx_changed # {})

\* C29 witness: a set ran a memo that has an effect as its only subscriber, the
\* memo recomputed the value it had, and the effect did not run
C29_Witness ==
    /\ Idle
    /\ op.name = "set" /\ ~op.same
    /\ \E m, e \in Live(nodes) :
          /\ IsType(m, "Memo") /\ IsType(e, "Effect")
          /\ nodes[e].dependencies = {m}
          /\ nodes[m].subscribers = {e}
          /\ op.a \in nodes[m].dependencies
          /\ tx_runs[m] = 1
          /\ m \notin tx_changed
          /\ tx_runs[e] = 0

\* the step executes the thunk of n and its closure returns
ThunkStep(n) ==
    /\ ~panicked /\ ~panicked'
    /\ stack # <<>>
    /\ Top.k = "thunk" /\ Top.node = n
    /\ n \in Live(nodes)

\* C30: when the thunk of a Memo or Effect finishes an execution, its
\* dependencies are exactly the handles it read in that execution (itself
\* excluded) and it is a subscriber of exactly those; a handle read only in an
\* earlier execution is on neither side.  In the propagation of a set the thunk
\* runs only if a handle it read in its previous execution got a different
\* value: a write to a handle it no longer reads does not run it.
C30_Rediscovery ==
    [][\A n \in Live(nodes) : ThunkStep(n) =>
          /\ nodes'[n].dependencies = Reads(prog[n], value) \ {n}
          /\ \A d \in Live(nodes') :
                n \in nodes'[d].subscribers <=> d \in Reads(prog[n], value) \ {n}
          /\ op.name = "set" => nodes[n].dependencies \cap tx_changed # {}]_vars

\* C30 witness: a closure over c, a, b had last run with c = 0, reading c and
\* b; c was set to 1, the thunk ran again and read c and a: b is no longer a
\* dependency and the node no longer a subscriber of b
C30_Witness ==
    /\ Idle
    /\ op.name = "set" /\ ~op.same
    /\ \E n \in Live(nodes) :
          /\ prog[n].fn = "sel"
          /\ Cardinality(prog[n].reads) = 3
          /\ op.a \in prog[n].reads /\ \A r \in prog[n].reads : op.a <= r
          /\ value[op.a] = 1
          /\ tx_runs[n] = 1
          /\ \E b \in prog[n].reads :
                /\ \A r \in prog[n].reads : r <= b
                /\ nodes[n].dependencies = prog[n].reads \ {b}
                /\ n \notin nodes[b].subscribers

\* the two nodes of the diff are of different variants or Elements of
\* different tags
Replaces ==
    \/ arena[diff_old].kind # arena[diff_new].kind
    \/ arena[diff_old].kind = "Element" /\ arena[diff_old].tag # arena[diff_new].tag

\* C31: when diff_nodes gets two nodes of different variants, or two Elements
\* of different tags, the records are the creation records of the new subtree,
\* one InsertBefore that places the new node before the old node, and the
\* Remove of the old node, with or without a parent
C31_Replace ==
    (diff_done /\ Replaces) =>
        \E ins \in {<<diff_new>>, FlattenNode(arena, diff_new)} :
            mutation_buffer =
                CreateTree(arena, diff_new)
                \o <<Mutation("InsertBefore", diff_old, ins, <<>>),
                     Mutation("Remove", diff_old, <<>>, <<>>)>>

\* the attribute map of a props list: name -> value, "" for an absent name
AttrMap(props) ==
    [n \in AttrNames |->
        IF \E i \in 1..Len(props) : props[i][1] = n
        THEN (CHOOSE v \in AttrValues : \E i \in 1..Len(props) : props[i] = <<n, v>>)
        ELSE ""]

\* a consumer applying SetAttribute / RemoveAttribute records to a map
RECURSIVE ApplyAttrs(_, _)
ApplyAttrs(map, records) ==
    IF records = <<>> THEN map
    ELSE LET r == Head(records)
             next == IF r.name = "SetAttribute"
                     THEN [map EXCEPT ![r.value[1]] = r.value[2]]
                     ELSE IF r.name = "RemoveAttribute"
                     THEN [map EXCEPT ![r.value[1]] = ""]
                     ELSE map
         IN  ApplyAttrs(next, Tail(records))

\* how many records of that variant name the attribute n
AttrRecords(variant, n) ==
    Cardinality({j \in 1..Len(mutation_buffer) :
                    /\ mutation_buffer[j].name = variant
                    /\ mutation_buffer[j].value[1] = n})

\* C32: for two Elements of the same tag with unique attribute names the diff
\* emits one SetAttribute (with the new value) exactly for the names whose
\* value is new or changed, one RemoveAttribute exactly for the names that are
\* gone, nothing else, all on the new node, and the records applied to the old
\* attribute map give the new one
C32_AttributeDiff ==
    diff_done =>
        LET old == AttrMap(arena[diff_old].props)
            new == AttrMap(arena[diff_new].props)
        IN  /\ \A j \in 1..Len(mutation_buffer) :
                  /\ mutation_buffer[j].name \in {"SetAttribute", "RemoveAttribute"}
                  /\ mutation_buffer[j].id = diff_new
                  /\ mutation_buffer[j].name = "SetAttribute" =>
                        mutation_buffer[j].value[2] = new[mutation_buffer[j].value[1]]
            /\ \A n \in AttrNames :
                  /\ AttrRecords("SetAttribute", n) =
                        (IF new[n] # "" /\ new[n] # old[n] THEN 1 ELSE 0)
                  /\ AttrRecords("RemoveAttribute", n) =
                        (IF old[n] # "" /\ new[n] = "" THEN 1 ELSE 0)
            /\ ApplyAttrs(old, mutation_buffer) = new

\* C32 witness: a diff of three attributes, one kept, one changed and one
\* removed, that emitted two records
C32_Witness ==
    /\ diff_done
    /\ LET old == AttrMap(arena[diff_old].props)
           new == AttrMap(arena[diff_new].props)
       IN  /\ \E n \in AttrNames : old[n] # "" /\ old[n] = new[n]
           /\ \E n \in AttrNames : old[n] # "" /\ new[n] # "" /\ old[n] # new[n]
           /\ \E n \in AttrNames : old[n] # "" /\ new[n] = ""
    /\ Len(mutation_buffer) = 2

\* the Remove records of the buffer that name id
Removals(id) ==
    {r \in 1..Len(mutation_buffer) :
        mutation_buffer[r].name = "Remove" /\ mutation_buffer[r].id = id}

\* C33: after diff_children every old child whose index is not in source has
\* exactly one Remove record, every old child matched by key with a new child
\* has none, and the Remove records come after all create and move records
C33_RemoveUnmatched ==
    diff_done =>
        LET old_c == arena[diff_old].children
            new_c == arena[diff_new].children
            source == Source(arena, old_c, new_c)
        IN  /\ \A j \in 1..Len(old_c) :
                  /\ (\A i \in DOMAIN source : source[i] # j - 1)
                        => Cardinality(Removals(old_c[j])) = 1
                  /\ (\E n \in Range(new_c) : arena[n].key = arena[old_c[j]].key)
                        => Removals(old_c[j]) = {}
            /\ \A a, b \in 1..Len(mutation_buffer) :
                  (a < b /\ mutation_buffer[a].name = "Remove")
                      => mutation_buffer[b].name = "Remove"

\* C33 witness: a diff that kept an old child, removed two, created a new
\* child and moved one
C33_Witness ==
    /\ diff_done
    /\ KeysOf(arena, diff_old) = <<1, 2, 3, 4>>
    /\ KeysOf(arena, diff_new) = <<5, 4, 1>>
    /\ Cardinality({r \in 1..Len(mutation_buffer) : mutation_buffer[r].name = "Remove"}) = 2
    /\ \E r \in 1..Len(mutation_buffer) : mutation_buffer[r].name = "CreateElement"
    /\ MoveRecords # {}

\* the Component nodes of the tree whose root is the current root
Mounted ==
    {id \in Subtree(arena, diff_old) : arena[id].kind = "Component"}

\* C34: after the mount and any sequence of diffs, every Component node of the
\* current tree has its own Scope, and the scope table holds no Scope other
\* than those: the Scope of a Component node that a diff removed or replaced
\* is gone
C34_ScopeLifecycle ==
    diff_old # NoNode =>
        /\ \A id \in Mounted : arena[id].scope \in 1..Len(scopes)
        /\ \A id, other \in Mounted : arena[id].scope = arena[other].scope => id = other
        /\ \A scope_id \in 1..Len(scopes) : \E id \in Mounted : arena[id].scope = scope_id

\* C35: Scheduler::run fails with the cycle error only when the forward closure
\* of the dirty set it drained contains a directed cycle; on an acyclic graph
\* every dirty set, one that holds the handle of a removed node included, gets
\* an order
C35_CycleReport ==
    (op.name = "run" /\ panicked) =>
        \E h \in Closure(nodes, run_input) : h \in Downstream(nodes, h)


\* ------------------------------------------------------- C36 .. C40
\* the propagate() calls that have not returned
Loops == {i \in 1..Len(stack) : stack[i].k = "prop"}

\* C36: a write a thunk makes while propagate() runs (set, update, or a batch
\* opened and closed inside the thunk) only adds to the dirty set: no second
\* propagation loop starts, and in_propagation stays set until the outer loop
\* has emptied the dirty set.
C36_NoNestedPropagation ==
    /\ Cardinality(Loops) <= 1
    /\ Loops # {} => in_propagation

\* a top-level write outside a batch, or the exit of an outermost batch, has
\* returned normally
Returned ==
    /\ Quiescent
    /\ batch_depth = 0
    /\ op.name \in {"set", "batch_end"}

\* the cache of the Memo m is what its thunk returns on the current values
UpToDate(m) ==
    value[m] = Apply(prog[m].fn, SumOf(value, Reads(prog[m], value)))

\* C37: whenever a top-level write outside a batch, or the exit of an outermost
\* batch, returns normally, the dirty set is empty, in_propagation is clear and
\* the cached value of every live Memo equals what its thunk would return on the
\* current values of the signals and memos it reads.
C37_QuiescentConsistency ==
    Returned =>
        /\ dirty_queue = {}
        /\ ~in_propagation
        /\ \A m \in Live(nodes) : IsType(m, "Memo") => UpToDate(m)

\* a write that changed a signal has returned, and a Memo two levels below it
\* was recomputed on the way
C37_Witness ==
    /\ Returned
    /\ ~op.same
    /\ \E m \in Live(nodes) :
          /\ IsType(m, "Memo")
          /\ DepthOf(nodes, m) >= 2
          /\ m \in tx_changed
          /\ UpToDate(m)

\* The consumer of the records, on the child sequence of one parent, with a
\* child named by its key: the new child of key k is the old child of key k.
Without(seq, k) == SelectSeq(seq, LAMBDA e : e # k)

\* x placed immediately before ref; with ref not among the children x is left
\* detached
PlaceBefore(seq, ref, k) ==
    LET rest == Without(seq, k)
    IN  IF \E p \in 1..Len(rest) : rest[p] = ref
        THEN LET p == CHOOSE q \in 1..Len(rest) : rest[q] = ref
             IN  SubSeq(rest, 1, p - 1) \o <<k>> \o SubSeq(rest, p, Len(rest))
        ELSE rest

\* x placed last
PlaceLast(seq, k) == Append(Without(seq, k), k)

RECURSIVE PlaceAll(_, _, _, _)
PlaceAll(ar, seq, ref, m) ==
    IF m = <<>> THEN seq
    ELSE PlaceAll(ar,
                  IF ref = NoKey THEN PlaceLast(seq, ar[Head(m)].key)
                  ELSE PlaceBefore(seq, ref, ar[Head(m)].key),
                  ref, Tail(m))

\* one record applied to the children of `parent`
Patch(ar, parent, seq, r) ==
    CASE r.name = "Remove" -> Without(seq, ar[r.id].key)
      [] r.name = "InsertBefore" -> PlaceAll(ar, seq, ar[r.id].key, r.m)
      [] r.name = "AppendChildren" /\ r.id = parent -> PlaceAll(ar, seq, NoKey, r.m)
      [] OTHER -> seq

RECURSIVE PatchAll(_, _, _, _)
PatchAll(ar, parent, seq, records) ==
    IF records = <<>> THEN seq
    ELSE PatchAll(ar, parent, Patch(ar, parent, seq, Head(records)), Tail(records))

\* C38: for old and new child lists of distinctly keyed Elements, applying the
\* records of diff_children in order to the old child sequence (InsertBefore
\* places before the reference, AppendChildren places last, Remove deletes; a
\* new child is the old child of the same key) yields exactly the new child
\* sequence.
C38_ReconciliationResult ==
    diff_done =>
        PatchAll(arena, diff_new, KeysOf(arena, diff_old), mutation_buffer)
            = KeysOf(arena, diff_new)

\* a diff with a kept, a moved, a created and a removed child has been patched
C38_Witness ==
    /\ diff_done
    /\ KeysOf(arena, diff_old) = <<1, 2, 3, 4>>
    /\ KeysOf(arena, diff_new) = <<3, 5, 1, 2>>
    /\ MoveRecords # {}
    /\ \E r \in 1..Len(mutation_buffer) : mutation_buffer[r].name = "Remove"
    /\ \E r \in 1..Len(mutation_buffer) : mutation_buffer[r].name = "CreateElement"
    /\ PatchAll(arena, diff_new, KeysOf(arena, diff_old), mutation_buffer)
          = <<3, 5, 1, 2>>

\* C39: in every state reachable through the Signal / Memo / Effect API every
\* dependency edge goes from a Signal or Memo to a Memo or Effect: a Signal has
\* no dependencies and depth 0, and an Effect has no subscribers.
C39_EdgeTyping ==
    \A h \in Live(nodes) :
        /\ IsType(h, "Signal") => Deps(h) = {} /\ DepthOf(nodes, h) = 0
        /\ IsType(h, "Effect") => Subs(h) = {}
        /\ \A d \in Deps(h) : ~IsType(d, "Effect")
        /\ \A o \in Subs(h) : ~IsType(o, "Signal")

\* a Signal read by a Memo that is read by an Effect
C39_Witness ==
    \E s, m, e \in Live(nodes) :
        /\ IsType(s, "Signal") /\ IsType(m, "Memo") /\ IsType(e, "Effect")
        /\ s \in Deps(m) /\ m \in Subs(s)
        /\ m \in Deps(e) /\ e \in Subs(m)
        /\ Quiescent

\* the flags diff_nodes reads for new_id: the record under new_id in the
\* metadata arena, or the default
SkipsByMetadata(id) ==
    LET meta == GetMetadata(metadata, id)
    IN  meta # <<>> /\ meta[1].is_static /\ meta[1].render_count > 0

\* C40: for every node inserted with insert_with_metadata a lookup in the
\* metadata arena by the handle of the node returns the record supplied at its
\* insertion, however insert_with_metadata and plain insertions into the node
\* arena are interleaved, so the static-skip test of diff_nodes reads the flags
\* of the node being diffed.
C40_MetadataAlignment ==
    \A id \in 1..Len(arena) :
        arena[id].kind = "Element" =>
            /\ GetMetadata(metadata, id)
                  = <<NodeMetadata(arena[id].is_static, arena[id].render_count)>>
            /\ SkipsByMetadata(id) <=> SkipsDiff(arena, id)

====
